---- MODULE Spec2Model ----
(***************************************************************************)
(* libjio: journaled I/O.  The model follows src/libjio.c (id allocation,  *)
(* jtrans_commit, jpwrite) and src/check.c (fill_trans, jfsck).            *)
(*                                                                         *)
(* The data file is a sequence of bytes.  The journal directory maps a     *)
(* record name (the transaction id) to an inode; an inode holds the bytes  *)
(* of the record file and the process that holds the fcntl lock on it.     *)
(* Tasks are threads; procOf gives the process a thread belongs to.  fcntl *)
(* locks are owned by processes, the pthread mutex of a jfs by a thread.   *)
(* A crash stops every committing task at a syscall boundary; what was     *)
(* written stays written.  jfsck then runs in a process of its own.        *)
(*                                                                         *)
(* 32-bit unsigned values (the lock-file counter, ids) are kept as the     *)
(* signed 32-bit integer with the same bit pattern, which is also what     *)
(* "int id = get_tid()" and the "%d" of get_jtfile make of them.           *)
(***************************************************************************)
EXTENDS Integers, Sequences, FiniteSets, TLC

\* ---- bounds of the model ----
NTasks == 2
MaxCommits == 2
MaxOff == 2
MaxLen == 2
MaxInitLen == 1
MaxFsck == 2
MaxRec == 2
MaxOthers == 2
MaxCleanup == 2

\* ---- program constants ----
J_DISKTFIXSIZE == 24
J_DISKHEADSIZE == 12
J_DISKOPHEADSIZE == 16
J_COMMITED == 1
MaxId == 3

MaxTidCalls == 1

INT_MAX == 2147483647

INT_MIN == (0 - INT_MAX) - 1

Tasks == 1..NTasks
FsckTask == NTasks + 1
AllTasks == 1..(NTasks + 1)
Procs == 1..(NTasks + 1)
FsckProc == NTasks + 1
MaxPos == MaxOff + MaxLen + 1
Positions == 0..MaxPos

\* ---- sequences of bytes ----
Zeros(n) == [i \in 1..n |-> 0]

Fill(n, b) == [i \in 1..n |-> b]

Max2(a, b) == IF a >= b THEN a ELSE b

Min2(a, b) == IF a <= b THEN a ELSE b

\* pwrite(fd, buf, Len(buf), off) on a file holding f: a write past the end
\* leaves a hole that reads as zero; spwrite issues no pwrite for count 0.
spwrite(f, buf, off) ==
    IF Len(buf) = 0 THEN f
    ELSE [i \in 1..Max2(Len(f), off + Len(buf)) |->
            IF i > off /\ i <= off + Len(buf) THEN buf[i - off]
            ELSE IF i <= Len(f) THEN f[i] ELSE 0]

\* spread(fd, buf, count, off): the bytes that exist in [off, off+count).
spread(f, count, off) ==
    IF off >= Len(f) \/ count = 0 THEN << >>
    ELSE SubSeq(f, off + 1, Min2(Len(f), off + count))

ftruncate(f, n) ==
    IF n <= Len(f) THEN SubSeq(f, 1, n) ELSE f \o Zeros(n - Len(f))

\* ---- 32-bit values ----
Inc32(s) == IF s = INT_MAX THEN INT_MIN ELSE s + 1

Dec32(s) == IF s = INT_MIN THEN INT_MAX ELSE s - 1

\* unsigned comparison of two 32-bit patterns
ULess(a, b) ==
    IF (a >= 0) = (b >= 0) THEN a < b ELSE a >= 0

Le32(v) ==
    << v % 256, (v \div 256) % 256, (v \div 65536) % 256, (v \div 16777216) % 256 >>

Le64(v) == Le32(v) \o << 0, 0, 0, 0 >>

\* the uint32_t at byte offset p of m
Rd32(m, p) ==
    m[p + 1] + 256 * m[p + 2] + 65536 * m[p + 3]
      + 16777216 * (IF m[p + 4] < 128 THEN m[p + 4] ELSE m[p + 4] - 256)

\* the uint64_t at byte offset p of m; -1 stands for a value of 2^32 or more
Rd64(m, p) ==
    IF Rd32(m, p + 4) = 0 /\ Rd32(m, p) >= 0 THEN Rd32(m, p) ELSE 0 - 1

RECURSIVE SumBytes(_, _)
SumBytes(m, n) == IF n <= 0 THEN 0 ELSE SumBytes(m, n - 1) + m[n]

\* checksum of the first n bytes of m: a 32-bit running sum
checksum_map(m, n) == SumBytes(m, n)

\* ---- byte ranges and fcntl locks ----
\* struct flock with l_start = offset, l_len = len: l_len = 0 reaches to the
\* end of the file and beyond
plockf_range(offset, len) ==
    IF len = 0 THEN { p \in Positions : p >= offset }
    ELSE { p \in Positions : p >= offset /\ p < offset + len }

Overlap(o1, l1, o2, l2) == l1 > 0 /\ l2 > 0 /\ o1 < o2 + l2 /\ o2 < o1 + l1

VARIABLES
    data,      \* the data file: a sequence of bytes
    counter,   \* the 32-bit word at offset 0 of the lock file
    dir,       \* journal directory: record name -> inode
    ino,       \* inode -> [bytes, lk]: record contents, process holding its lock
    nextino,   \* next unused inode number
    dlock,     \* process -> byte positions of the data file it has locked
    mutex,     \* process -> thread holding fs->lock of the process's jfs (0: free)
    task,      \* thread -> its position in jpwrite/jtrans_commit and its jtrans
    procOf,    \* thread -> process
    nolock,    \* process -> J_NOLOCK set in fs->flags
    norollback, \* process -> J_NOROLLBACK set in fs->flags
    wrapper,   \* the callers write through jpwrite rather than jtrans_commit
    crashed,   \* the committing processes were killed
    fsck,      \* jfsck: position, loop index, maxtid, tfd, counters
    base,      \* history: the data file at the start
    shadow,    \* history: base with every fsynced transaction applied whole
    held,      \* history: position -> byte a returned commit put there (-1: none)
    snap,      \* history: the data file when the first jfsck returned
    hung,      \* history: transactions fsynced and not yet applied at the crash
    lastgot,   \* history: the last id get_tid handed out, and whether the counter
               \* was rewritten to another value since
    lastacq,   \* history: the caller that took a range lock on the data file last
    others,    \* the entries of the journal directory that are neither a record
               \* nor the lock file, by name
    cleanup,   \* jfsck_cleanup: position, entries readdir has yet to return, the
               \* lock file and the directory being there, the value returned
    jlock,     \* process -> whether it holds the whole-file lock on the lock file
    tidop,     \* caller -> the get_tid, free_tid or jopen call it is in, step by step
    jsize,     \* size of the lock file in bytes, -1 when there is no lock file
    fpos,      \* process -> the file pointer of its descriptor of the data file
    iov        \* caller -> the lengths of the iovec it passed to jwrite or jwritev

vars == << data, counter, dir, ino, nextino, dlock, mutex, task, procOf, nolock,
           norollback, wrapper,
           crashed, fsck, base, shadow, held, snap, hung, lastgot, lastacq,
           others, cleanup, jlock, tidop, jsize, fpos, iov >>

clean == << others, cleanup, jlock, tidop, jsize, fpos, iov >>

hist == << base, shadow, held, snap, hung, lastgot, lastacq >>

config == << procOf, nolock, norollback, wrapper >>

\* ---- the journal directory ----
Names == DOMAIN dir

NoTrans ==
    [ pc |-> "idle", via |-> "none", n |-> 0, ret |-> 0, lid |-> 0, fd |-> 0,
      id |-> 0, flags |-> 0, offset |-> 0, len |-> 0, buf |-> << >>,
      plen |-> 0, pdata |-> << >>, rv |-> 0, myino |-> 0 ]

\* inodes that are still linked or still open; the others are gone
Live(d, tk, tfd) ==
    { d[n] : n \in DOMAIN d } \cup { tk[t].fd : t \in AllTasks } \cup { tfd }

Gc(i, d, tk, tfd) == [ x \in (DOMAIN i) \cap Live(d, tk, tfd) |-> i[x] ]

\* write to an open record descriptor
WriteIno(i, x, buf, off) ==
    IF x \in DOMAIN i THEN [ i EXCEPT ![x].bytes = spwrite(@, buf, off) ] ELSE i


\* ---- id allocation (the lock-file counter, read and written under its lock) ----
\* a get_tid that hands out the counter as it stands
get_tid_same(curid) ==
    IF curid = 0 THEN 1 ELSE curid

\* get_tid without the test for an overflow to 0
get_tid_nowrap(curid) ==
    Inc32(curid)

\* the id handed out; it is also the value written back to the lock file
get_tid(curid) ==
    LET rv == Inc32(curid) IN IF rv = 0 THEN 1 ELSE rv

\* the existing record name with the greatest unsigned value among S
UMax(S) == CHOOSE x \in S : \A y \in S : ~ULess(x, y)

\* the value of i when the scan "for (i = curid - 1; i > 0; i--)" stops: the
\* first name it finds, or 0
free_tid_scan(curid, names) ==
    LET start == Dec32(curid)
        found == { n \in names : n # 0 /\ ~ULess(start, n) }
    IN  IF found = {} THEN 0 ELSE UMax(found)

\* the counter after free_tid(fs, tid)
free_tid(curid, tid, names) ==
    IF ULess(tid, curid) THEN curid ELSE free_tid_scan(curid, names)

\* ---- get_tid and free_tid, one action per system call ----
\* no call of get_tid or free_tid under way
TidIdle ==
    [ pc |-> "idle", fn |-> "none", tid |-> 0, curid |-> 0, read |-> 0, i |-> 0,
      rv |-> 0, r |-> 0, probes |-> 0, far |-> FALSE, n |-> 0, ret |-> 0,
      seen |-> FALSE ]

\* the lock-file word after a write of the 4 bytes of v that stopped after c
ShortWrite(old, v, c) ==
    Rd32(SubSeq(Le32(v), 1, c) \o SubSeq(Le32(old), c + 1, 4), 0)

\* a lock that is granted whoever holds it
jfd_lock_nowait(t, next) ==
    /\ jlock' = [ jlock EXCEPT ![procOf[t]] = TRUE ]
    /\ tidop' = [ tidop EXCEPT ![t].pc = next ]
    /\ UNCHANGED << data, counter, dir, ino, nextino, dlock, mutex, task, config, crashed,
                    fsck, hist, others, cleanup, jsize, fpos, iov >>

\* plockf(fs->jfd, F_LOCK, 0, 0): waits while another process holds the lock
jfd_lock(t, next) ==
    /\ \A p \in Procs : p # procOf[t] => ~jlock[p]
    /\ jlock' = [ jlock EXCEPT ![procOf[t]] = TRUE ]
    /\ tidop' = [ tidop EXCEPT ![t].pc = next ]
    /\ UNCHANGED << data, counter, dir, ino, nextino, dlock, mutex, task, config, crashed,
                    fsck, hist, others, cleanup, jsize, fpos, iov >>

\* exit: plockf(fs->jfd, F_ULOCK, 0, 0); return
jfd_unlock(t, ret) ==
    /\ jlock' = [ jlock EXCEPT ![procOf[t]] = FALSE ]
    /\ tidop' = [ tidop EXCEPT ![t].pc = "idle", ![t].ret = ret ]
    /\ UNCHANGED << data, counter, dir, ino, nextino, dlock, mutex, task, config, crashed,
                    fsck, hist, others, cleanup, jsize, fpos, iov >>

g_call(t) ==
    /\ tidop[t].pc = "idle" /\ tidop[t].n < MaxTidCalls
    /\ tidop' = [ tidop EXCEPT ![t] = [ TidIdle EXCEPT !.pc = "g_lock", !.fn = "get_tid",
                                                       !.n = tidop[t].n + 1 ] ]
    /\ UNCHANGED << data, counter, dir, ino, nextino, dlock, mutex, task, config, crashed,
                    fsck, hist, others, cleanup, jlock, jsize, fpos, iov >>

g_lock(t) ==
    /\ tidop[t].pc = "g_lock"
    /\ jfd_lock(t, "g_read")

\* a get_tid that returns straight from a short read
g_read_noexit(t) ==
    /\ tidop[t].pc = "g_read"
    /\ \/ /\ jsize = 4
          /\ tidop' = [ tidop EXCEPT ![t].pc = "g_write", ![t].r = 4,
                                     ![t].curid = counter, ![t].read = counter ]
       \/ \E c \in 0..3 :
            tidop' = [ tidop EXCEPT ![t].pc = "idle", ![t].r = c, ![t].rv = 0, ![t].ret = 0 ]
    /\ UNCHANGED << data, counter, dir, ino, nextino, dlock, mutex, task, config, crashed,
                    fsck, hist, others, cleanup, jlock, jsize, fpos, iov >>

\* r = spread(fs->jfd, &curid, sizeof(curid), 0): whole, or short and rv = 0
g_read(t) ==
    /\ tidop[t].pc = "g_read"
    /\ \/ /\ jsize = 4
          /\ tidop' = [ tidop EXCEPT ![t].pc = "g_write", ![t].r = 4,
                                     ![t].curid = counter, ![t].read = counter ]
       \/ \E c \in 0..3 :
            tidop' = [ tidop EXCEPT ![t].pc = "g_exit", ![t].r = c, ![t].rv = 0 ]
    /\ UNCHANGED << data, counter, dir, ino, nextino, dlock, mutex, task, config, crashed,
                    fsck, hist, others, cleanup, jlock, jsize, fpos, iov >>

\* rv = curid + 1, 1 on overflow; spwrite(fs->jfd, &rv, sizeof(rv), 0): whole,
\* or stopped after c bytes and rv = 0
g_write(t) ==
    /\ tidop[t].pc = "g_write"
    /\ LET rv == get_tid(tidop[t].curid) IN
         \/ /\ counter' = rv
            /\ tidop' = [ tidop EXCEPT ![t].pc = "g_exit", ![t].r = 4, ![t].rv = rv ]
         \/ \E c \in 0..3 :
              /\ counter' = ShortWrite(counter, rv, c)
              /\ tidop' = [ tidop EXCEPT ![t].pc = "g_exit", ![t].r = c, ![t].rv = 0 ]
    /\ UNCHANGED << data, dir, ino, nextino, dlock, mutex, task, config, crashed,
                    fsck, hist, others, cleanup, jlock, jsize, fpos, iov >>

g_exit(t) ==
    /\ tidop[t].pc = "g_exit"
    /\ jfd_unlock(t, tidop[t].rv)

ft_call(t) ==
    /\ tidop[t].pc = "idle" /\ tidop[t].n < MaxTidCalls
    /\ \E tid \in (0..(MaxId + 1)) \cup {0 - 1} :
         tidop' = [ tidop EXCEPT ![t] = [ TidIdle EXCEPT !.pc = "ft_lock", !.fn = "free_tid",
                                                         !.tid = tid,
                                                         !.n = tidop[t].n + 1 ] ]
    /\ UNCHANGED << data, counter, dir, ino, nextino, dlock, mutex, task, config, crashed,
                    fsck, hist, others, cleanup, jlock, jsize, fpos, iov >>

ft_lock(t) ==
    /\ tidop[t].pc = "ft_lock"
    /\ jfd_lock(t, "ft_read")

\* r = spread(fs->jfd, &curid, sizeof(curid), 0): whole, or short
ft_read(t) ==
    /\ tidop[t].pc = "ft_read"
    /\ \/ /\ jsize = 4
          /\ tidop' = [ tidop EXCEPT ![t].pc = "ft_cmp", ![t].r = 4,
                                     ![t].curid = counter, ![t].read = counter ]
       \/ \E c \in 0..3 :
            tidop' = [ tidop EXCEPT ![t].pc = "ft_exit", ![t].r = c ]
    /\ UNCHANGED << data, counter, dir, ino, nextino, dlock, mutex, task, config, crashed,
                    fsck, hist, others, cleanup, jlock, jsize, fpos, iov >>

\* if (tid < curid) goto exit; else i = curid - 1
ft_cmp(t) ==
    /\ tidop[t].pc = "ft_cmp"
    /\ tidop' = IF ULess(tidop[t].tid, tidop[t].curid)
                THEN [ tidop EXCEPT ![t].pc = "ft_exit" ]
                ELSE [ tidop EXCEPT ![t].pc = "ft_scan", ![t].i = Dec32(tidop[t].curid) ]
    /\ UNCHANGED << data, counter, dir, ino, nextino, dlock, mutex, task, config, crashed,
                    fsck, hist, others, cleanup, jlock, jsize, fpos, iov >>

\* a scan that goes on after it has found a record
ft_scan_nobreak(t) ==
    /\ tidop[t].pc = "ft_scan"
    /\ LET i == tidop[t].i IN
         tidop' =
           IF i = 0 THEN [ tidop EXCEPT ![t].pc = "ft_write" ]
           ELSE IF i \in Names
           THEN [ tidop EXCEPT ![t].curid = i, ![t].probes = @ + 1, ![t].i = Dec32(i) ]
           ELSE IF ULess(MaxId, i)
           THEN [ tidop EXCEPT ![t].i = MaxId, ![t].far = TRUE ]
           ELSE [ tidop EXCEPT ![t].i = Dec32(i), ![t].probes = @ + 1 ]
    /\ UNCHANGED << data, counter, dir, ino, nextino, dlock, mutex, task, config, crashed,
                    fsck, hist, others, cleanup, jlock, jsize, fpos, iov >>

\* one turn of "for (i = curid - 1; i > 0; i--)": access() of the record named
\* i, curid = i and break when it is there. The turns for names above MaxId,
\* where no record can be, are taken in one step and not counted in probes
ft_scan(t) ==
    /\ tidop[t].pc = "ft_scan"
    /\ LET i == tidop[t].i IN
         tidop' =
           IF i = 0 THEN [ tidop EXCEPT ![t].pc = "ft_write" ]
           ELSE IF i \in Names
           THEN [ tidop EXCEPT ![t].pc = "ft_write", ![t].curid = i, ![t].probes = @ + 1 ]
           ELSE IF ULess(MaxId, i)
           THEN [ tidop EXCEPT ![t].i = MaxId, ![t].far = TRUE ]
           ELSE [ tidop EXCEPT ![t].i = Dec32(i), ![t].probes = @ + 1 ]
    /\ UNCHANGED << data, counter, dir, ino, nextino, dlock, mutex, task, config, crashed,
                    fsck, hist, others, cleanup, jlock, jsize, fpos, iov >>

\* r = spwrite(fs->jfd, &i, sizeof(i), 0): whole, or stopped after c bytes
ft_write(t) ==
    /\ tidop[t].pc = "ft_write"
    /\ \E c \in 0..4 :
         /\ counter' = ShortWrite(counter, tidop[t].i, c)
         /\ tidop' = [ tidop EXCEPT ![t].pc = "ft_exit", ![t].r = c ]
    /\ UNCHANGED << data, dir, ino, nextino, dlock, mutex, task, config, crashed,
                    fsck, hist, others, cleanup, jlock, jsize, fpos, iov >>

ft_exit(t) ==
    /\ tidop[t].pc = "ft_exit"
    /\ jfd_unlock(t, 0)

get_tid_call(t) == g_lock(t) \/ g_read(t) \/ g_write(t) \/ g_exit(t)

free_tid_call(t) ==
    ft_lock(t) \/ ft_read(t) \/ ft_cmp(t) \/ ft_scan(t) \/ ft_write(t) \/ ft_exit(t)

\* ---- jopen: the lock file, one action per system call ----
jo_call(t) ==
    /\ tidop[t].pc = "idle" /\ tidop[t].fn = "none"
    /\ tidop' = [ tidop EXCEPT ![t] = [ TidIdle EXCEPT !.pc = "jo_access", !.fn = "jopen" ] ]
    /\ UNCHANGED << data, counter, dir, ino, nextino, dlock, mutex, task, config, crashed,
                    fsck, hist, others, cleanup, jlock, jsize, fpos, iov >>

\* access(jlockfile, F_OK)
jo_access(t) ==
    /\ tidop[t].pc = "jo_access"
    /\ tidop' = [ tidop EXCEPT ![t].pc = "jo_open", ![t].seen = (jsize >= 0) ]
    /\ UNCHANGED << data, counter, dir, ino, nextino, dlock, mutex, task, config, crashed,
                    fsck, hist, others, cleanup, jlock, jsize, fpos, iov >>

\* open(jlockfile, O_RDWR | O_CREAT | O_SYNC) when access() found no file,
\* open(jlockfile, O_RDWR | O_SYNC) otherwise; return -1 when it fails
jo_open(t) ==
    /\ tidop[t].pc = "jo_open"
    /\ IF tidop[t].seen /\ jsize < 0
       THEN /\ tidop' = [ tidop EXCEPT ![t].pc = "idle", ![t].ret = 0 - 1 ]
            /\ UNCHANGED jsize
       ELSE /\ tidop' = [ tidop EXCEPT ![t].pc = "jo_lock" ]
            /\ jsize' = IF jsize < 0 THEN 0 ELSE jsize
    /\ UNCHANGED << data, counter, dir, ino, nextino, dlock, mutex, task, config, crashed,
                    fsck, hist, others, cleanup, jlock, fpos, iov >>

jo_lock(t) ==
    /\ tidop[t].pc = "jo_lock"
    /\ jfd_lock(t, "jo_stat")

\* lstat(jlockfile, &sinfo); if (sinfo.st_size == 0)
jo_stat(t) ==
    /\ tidop[t].pc = "jo_stat"
    /\ tidop' = [ tidop EXCEPT ![t].pc = IF jsize = 0 THEN "jo_write" ELSE "jo_unlock",
                               ![t].r = jsize ]
    /\ UNCHANGED << data, counter, dir, ino, nextino, dlock, mutex, task, config, crashed,
                    fsck, hist, others, cleanup, jlock, jsize, fpos, iov >>

\* t = 1; rv = write(jfd, &t, sizeof(t)) at the start of the file: whole, or
\* stopped after c bytes and jopen returns -1
jo_write(t) ==
    /\ tidop[t].pc = "jo_write"
    /\ \E c \in 0..4 :
         /\ counter' = ShortWrite(counter, 1, c)
         /\ jsize' = Max2(jsize, c)
         /\ tidop' = [ tidop EXCEPT ![t].pc = "jo_unlock",
                                    ![t].rv = IF c = 4 THEN 0 ELSE 0 - 1 ]
    /\ UNCHANGED << data, dir, ino, nextino, dlock, mutex, task, config, crashed,
                    fsck, hist, others, cleanup, jlock, fpos, iov >>

\* plockf(jfd, F_ULOCK, 0, 0); return
jo_unlock(t) ==
    /\ tidop[t].pc = "jo_unlock"
    /\ jfd_unlock(t, tidop[t].rv)

jopen(t) ==
    jo_access(t) \/ jo_open(t) \/ jo_lock(t) \/ jo_stat(t) \/ jo_write(t) \/ jo_unlock(t)

\* ---- jtrans_commit, one action per system call ----
At(t, l) == task[t].pc = l

Goto(t, l) == [ task EXCEPT ![t].pc = l ]

\* the fixed-size head of the record file
DiskHead(ts) ==
    Le32(ts.id) \o Le32(ts.flags) \o Le32(ts.len) \o Le32(0) \o Le64(ts.offset)

HasCommited(flags) == (flags \div J_COMMITED) % 2 = 1

\* a commit that writes [offset, offset+len) supersedes what was held there
Standing(offset, len) ==
    [ p \in Positions |-> IF p >= offset /\ p < offset + len THEN 0 - 1 ELSE held[p] ]

\* the (offset, len) pairs callers pass: the head of the file, and one byte
\* behind it
Ranges == { << 0, MaxLen >>, << MaxOff, 1 >> }

\* a caller issues jtrans_commit, or jpwrite, with a buffer of its own
Call(t) ==
    /\ t \in Tasks /\ At(t, "idle") /\ ~crashed /\ task[t].n < MaxCommits
    /\ \E r \in Ranges :
         task' = [ task EXCEPT ![t] =
                     [ NoTrans EXCEPT !.pc = IF wrapper THEN "jp_lock" ELSE "c_tid",
                                      !.via = IF wrapper THEN "jpwrite" ELSE "jtrans_commit",
                                      !.n = task[t].n + 1,
                                      !.offset = r[1], !.len = r[2],
                                      !.buf = Fill(r[2], 10 * t + task[t].n + 1) ] ]
    /\ UNCHANGED << clean, data, counter, dir, ino, nextino, dlock, mutex, config,
                    crashed, fsck, hist >>

\* jpwrite: pthread_mutex_lock(&fs->lock), held until jtrans_commit has returned
jp_lock(t) ==
    /\ At(t, "jp_lock") /\ mutex[procOf[t]] = 0
    /\ mutex' = [ mutex EXCEPT ![procOf[t]] = t ]
    /\ task' = Goto(t, "c_tid")
    /\ UNCHANGED << clean, data, counter, dir, ino, nextino, dlock, config, crashed, fsck, hist >>

jp_unlock(t) ==
    /\ At(t, "jp_unlock")
    /\ mutex' = [ mutex EXCEPT ![procOf[t]] = 0 ]
    /\ task' = Goto(t, "idle")
    /\ UNCHANGED << clean, data, counter, dir, ino, nextino, dlock, config, crashed, fsck, hist >>

c_tid(t) ==
    /\ At(t, "c_tid")
    /\ counter' = get_tid(counter)
    /\ task' = [ task EXCEPT ![t].pc = "c_open", ![t].lid = get_tid(counter) ]
    /\ lastgot' = [ id |-> get_tid(counter), lowered |-> FALSE ]
    /\ UNCHANGED << clean, data, dir, ino, nextino, dlock, mutex, config, crashed, fsck,
                    base, shadow, held, snap, hung, lastacq >>

\* open(name, O_RDWR | O_CREAT | O_TRUNC): an existing record of that name is
\* emptied and shared, otherwise a new file is made
c_open(t) ==
    /\ At(t, "c_open")
    /\ LET name == task[t].lid IN
         IF name \in Names
         THEN /\ ino' = [ ino EXCEPT ![dir[name]].bytes = << >> ]
              /\ task' = [ task EXCEPT ![t].pc = "c_flock", ![t].fd = dir[name],
                                       ![t].myino = dir[name] ]
              /\ UNCHANGED << dir, nextino >>
         ELSE /\ dir' = [ n \in Names \cup {name} |-> IF n = name THEN nextino ELSE dir[n] ]
              /\ ino' = [ x \in DOMAIN ino \cup {nextino} |->
                            IF x = nextino THEN [ bytes |-> << >>, lk |-> 0 ] ELSE ino[x] ]
              /\ nextino' = nextino + 1
              /\ task' = [ task EXCEPT ![t].pc = "c_flock", ![t].fd = nextino,
                                       ![t].myino = nextino ]
    /\ UNCHANGED << clean, data, counter, dlock, mutex, config, crashed, fsck, hist >>

\* plockf(fd, F_LOCK, 0, 0) on the record file; then ts->id = id
c_flock(t) ==
    /\ At(t, "c_flock")
    /\ ino[task[t].fd].lk \in {0, procOf[t]}
    /\ ino' = [ ino EXCEPT ![task[t].fd].lk = procOf[t] ]
    /\ task' = [ task EXCEPT ![t].pc = "c_dlock", ![t].id = task[t].lid ]
    /\ UNCHANGED << clean, data, counter, dir, nextino, dlock, mutex, config, crashed, fsck, hist >>

\* plockf(ts->fs->fd, F_LOCK, ts->offset, ts->len) unless J_NOLOCK
c_dlock(t) ==
    /\ At(t, "c_dlock")
    /\ LET p == procOf[t]
           r == plockf_range(task[t].offset, task[t].len)
       IN  IF nolock[p] THEN UNCHANGED dlock
           ELSE /\ \A q \in Procs \ {p} : dlock[q] \cap r = {}
                /\ dlock' = [ dlock EXCEPT ![p] = @ \cup r ]
    /\ task' = Goto(t, "c_whead")
    /\ lastacq' = IF t \in Tasks THEN t ELSE lastacq
    /\ UNCHANGED << clean, data, counter, dir, ino, nextino, mutex, config, crashed, fsck,
                    base, shadow, held, snap, hung, lastgot >>

c_whead(t) ==
    /\ At(t, "c_whead")
    /\ ino' = WriteIno(ino, task[t].fd, DiskHead(task[t]), 0)
    /\ task' = Goto(t, "c_read")
    /\ UNCHANGED << clean, data, counter, dir, nextino, dlock, mutex, config, crashed, fsck, hist >>

\* ts->plen = ts->len; rv = spread(ts->fs->fd, ts->pdata, ts->len, ts->offset)
c_read(t) ==
    /\ At(t, "c_read")
    /\ LET got == spread(data, task[t].len, task[t].offset) IN
         task' = [ task EXCEPT ![t].pdata = got, ![t].rv = Len(got),
                               ![t].plen = task[t].len,
                               ![t].pc = IF Len(got) < task[t].len
                                         THEN "c_trunc" ELSE "c_wpdata" ]
    /\ UNCHANGED << clean, data, counter, dir, ino, nextino, dlock, mutex, config, crashed,
                    fsck, hist >>

\* a commit that extends the file and keeps plen = len
c_trunc_keepplen(t) ==
    /\ At(t, "c_trunc")
    /\ data' = ftruncate(data, task[t].offset + task[t].len)
    /\ task' = [ task EXCEPT ![t].pc = "c_wpdata" ]
    /\ held' = Standing(task[t].offset, task[t].len)
    /\ UNCHANGED << clean, counter, dir, ino, nextino, dlock, mutex, config, crashed, fsck,
                    base, shadow, snap, hung, lastgot, lastacq >>

\* rv < ts->len: ftruncate(ts->fs->fd, ts->offset + ts->len); ts->plen = rv
c_trunc(t) ==
    /\ At(t, "c_trunc")
    /\ data' = ftruncate(data, task[t].offset + task[t].len)
    /\ task' = [ task EXCEPT ![t].pc = "c_wpdata", ![t].plen = task[t].rv ]
    /\ held' = Standing(task[t].offset, task[t].len)
    /\ UNCHANGED << clean, counter, dir, ino, nextino, dlock, mutex, config, crashed, fsck,
                    base, shadow, snap, hung, lastgot, lastacq >>

\* spwrite(fd, ts->pdata, ts->len, t): the bytes of the buffer beyond what
\* spread filled were never written by the program
c_wpdata(t) ==
    /\ At(t, "c_wpdata")
    /\ \E junk \in {0, 85} :
         ino' = WriteIno(ino, task[t].fd,
                         task[t].pdata \o Fill(task[t].len - Len(task[t].pdata), junk),
                         J_DISKTFIXSIZE)
    /\ task' = Goto(t, "c_wbuf")
    /\ UNCHANGED << clean, data, counter, dir, nextino, dlock, mutex, config, crashed, fsck, hist >>

c_wbuf(t) ==
    /\ At(t, "c_wbuf")
    /\ ino' = WriteIno(ino, task[t].fd, task[t].buf, J_DISKTFIXSIZE + task[t].plen)
    /\ task' = Goto(t, "c_fsync")
    /\ UNCHANGED << clean, data, counter, dir, nextino, dlock, mutex, config, crashed, fsck, hist >>

c_fsync(t) ==
    /\ At(t, "c_fsync")
    /\ task' = Goto(t, "c_apply")
    /\ shadow' = IF t \in Tasks
                 THEN spwrite(shadow, task[t].buf, task[t].offset) ELSE shadow
    /\ UNCHANGED << clean, data, counter, dir, ino, nextino, dlock, mutex, config, crashed,
                    fsck, base, held, snap, hung, lastgot, lastacq >>

\* a commit whose apply writes at the end of the file, not at the offset
c_apply_append(t) ==
    /\ At(t, "c_apply")
    /\ data' = data \o task[t].buf
    /\ task' = [ task EXCEPT ![t].pc = "c_free",
                             ![t].flags = IF HasCommited(@) THEN @ ELSE @ + J_COMMITED ]
    /\ held' = Standing(task[t].offset, task[t].len)
    /\ UNCHANGED << clean, counter, dir, ino, nextino, dlock, mutex, config, crashed, fsck,
                    base, shadow, snap, hung, lastgot, lastacq >>

\* spwrite(ts->fs->fd, ts->buf, ts->len, ts->offset); ts->flags |= J_COMMITED
c_apply(t) ==
    /\ At(t, "c_apply")
    /\ data' = spwrite(data, task[t].buf, task[t].offset)
    /\ task' = [ task EXCEPT ![t].pc = "c_free",
                             ![t].flags = IF HasCommited(@) THEN @ ELSE @ + J_COMMITED ]
    /\ held' = Standing(task[t].offset, task[t].len)
    /\ UNCHANGED << clean, counter, dir, ino, nextino, dlock, mutex, config, crashed, fsck,
                    base, shadow, snap, hung, lastgot, lastacq >>

c_free(t) ==
    /\ At(t, "c_free")
    /\ counter' = free_tid(counter, task[t].id, Names)
    /\ lastgot' = [ lastgot EXCEPT !.lowered = @ \/ counter' # counter ]
    /\ task' = Goto(t, "c_unlink")
    /\ UNCHANGED << clean, data, dir, ino, nextino, dlock, mutex, config, crashed, fsck,
                    base, shadow, held, snap, hung, lastacq >>

\* a commit whose unlink leaves the journal directory as it was
c_unlink_noop(t) ==
    /\ At(t, "c_unlink")
    /\ dir' = dir
    /\ ino' = Gc(ino, dir', task, fsck.tfd)
    /\ task' = Goto(t, "c_close")
    /\ UNCHANGED << clean, data, counter, nextino, dlock, mutex, config, crashed, fsck, hist >>

\* unlink(name): whatever file carries the name goes
c_unlink(t) ==
    /\ At(t, "c_unlink")
    /\ dir' = [ n \in Names \ {task[t].id} |-> dir[n] ]
    /\ ino' = Gc(ino, dir', task, fsck.tfd)
    /\ task' = Goto(t, "c_close")
    /\ UNCHANGED << clean, data, counter, nextino, dlock, mutex, config, crashed, fsck, hist >>

\* close(fd): the process gives up its lock on that file
c_close(t) ==
    /\ At(t, "c_close")
    /\ task' = [ task EXCEPT ![t].pc = "c_dunlock", ![t].fd = 0 ]
    /\ LET x == task[t].fd
           i1 == IF x \in DOMAIN ino /\ ino[x].lk = procOf[t]
                 THEN [ ino EXCEPT ![x].lk = 0 ] ELSE ino
       IN  ino' = Gc(i1, dir, task', fsck.tfd)
    /\ UNCHANGED << clean, data, counter, dir, nextino, dlock, mutex, config, crashed, fsck, hist >>

\* a commit that returns with its range of the data file still locked
c_dunlock_keep(t) ==
    /\ At(t, "c_dunlock")
    /\ LET p == procOf[t]
           r == plockf_range(task[t].offset, task[t].len)
           rv == IF HasCommited(task[t].flags) THEN task[t].len ELSE 0 - 1
       IN  /\ dlock' = IF nolock[p] \/ r # {} THEN dlock ELSE [ dlock EXCEPT ![p] = @ \ r ]
           /\ task' = [ task EXCEPT
                 ![t].ret = rv,
                 ![t].pc = IF t = FsckTask THEN "c_ret"
                           ELSE IF task[t].via = "jpwrite" THEN "jp_unlock" ELSE "idle" ]
           /\ held' = IF t \in Tasks /\ rv > 0
                      THEN [ q \in Positions |->
                               IF q >= task[t].offset /\ q < task[t].offset + task[t].len
                               THEN task[t].buf[q - task[t].offset + 1] ELSE held[q] ]
                      ELSE held
    /\ UNCHANGED << clean, data, counter, dir, ino, nextino, mutex, config, crashed, fsck,
                    base, shadow, snap, hung, lastgot, lastacq >>

\* plockf(ts->fs->fd, F_ULOCK, ...) unless J_NOLOCK; return ts->len or -1
c_dunlock(t) ==
    /\ At(t, "c_dunlock")
    /\ LET p == procOf[t]
           r == plockf_range(task[t].offset, task[t].len)
           rv == IF HasCommited(task[t].flags) THEN task[t].len ELSE 0 - 1
       IN  /\ dlock' = IF nolock[p] THEN dlock ELSE [ dlock EXCEPT ![p] = @ \ r ]
           /\ task' = [ task EXCEPT
                 ![t].ret = rv,
                 ![t].pc = IF t = FsckTask THEN "c_ret"
                           ELSE IF task[t].via = "jpwrite" THEN "jp_unlock" ELSE "idle" ]
           /\ held' = IF t \in Tasks /\ rv > 0
                      THEN [ q \in Positions |->
                               IF q >= task[t].offset /\ q < task[t].offset + task[t].len
                               THEN task[t].buf[q - task[t].offset + 1] ELSE held[q] ]
                      ELSE held
    /\ UNCHANGED << clean, data, counter, dir, ino, nextino, mutex, config, crashed, fsck,
                    base, shadow, snap, hung, lastgot, lastacq >>

Commit(t) ==
    \/ c_tid(t) \/ c_open(t) \/ c_flock(t) \/ c_dlock(t) \/ c_whead(t) \/ c_read(t)
    \/ c_trunc(t) \/ c_wpdata(t) \/ c_wbuf(t) \/ c_fsync(t) \/ c_apply(t)
    \/ c_free(t) \/ c_unlink(t) \/ c_close(t) \/ c_dunlock(t)

\* ---- jtrans_commit: the steps that fail ----
\* where "return -1" leaves the caller
Returned(t) ==
    IF t = FsckTask THEN "c_ret"
    ELSE IF task[t].via = "jpwrite" THEN "jp_unlock" ELSE "idle"

\* fd = open(...) < 0: return -1, with the id taken from get_tid
c_open_fail(t) ==
    /\ At(t, "c_open")
    /\ task' = [ task EXCEPT ![t].pc = Returned(t), ![t].ret = 0 - 1 ]
    /\ UNCHANGED << clean, data, counter, dir, ino, nextino, dlock, mutex, config, crashed,
                    fsck, hist >>

\* buf_init = malloc(J_DISKTFIXSIZE) is NULL: return -1, with the record open
\* and locked and the range of the data file locked
c_malloc_fail(t) ==
    /\ At(t, "c_whead")
    /\ task' = [ task EXCEPT ![t].pc = Returned(t), ![t].ret = 0 - 1 ]
    /\ UNCHANGED << clean, data, counter, dir, ino, nextino, dlock, mutex, config, crashed,
                    fsck, hist >>

\* a write to the record fails or is short, malloc(ts->len) is NULL, or the
\* read of the previous data fails: goto exit
c_io_fail(t) ==
    /\ \/ At(t, "c_whead") \/ At(t, "c_read") \/ At(t, "c_wpdata") \/ At(t, "c_wbuf")
    /\ task' = Goto(t, "c_close")
    /\ UNCHANGED << clean, data, counter, dir, ino, nextino, dlock, mutex, config, crashed,
                    fsck, hist >>

\* the write to the data file fails, or is short by one byte: goto exit
c_apply_fail(t) ==
    /\ At(t, "c_apply")
    /\ \/ data' = data
       \/ /\ task[t].len > 1
          /\ data' = spwrite(data, SubSeq(task[t].buf, 1, task[t].len - 1), task[t].offset)
    /\ task' = Goto(t, "c_close")
    /\ UNCHANGED << clean, counter, dir, ino, nextino, dlock, mutex, config, crashed, fsck, hist >>

CommitFail(t) == c_open_fail(t) \/ c_malloc_fail(t) \/ c_io_fail(t)

\* ---- spwrite in two pwrite calls ----
\* the first pwrite of the apply is short by one byte: spwrite keeps on writing
c_apply_part(t) ==
    /\ At(t, "c_apply") /\ task[t].len > 1
    /\ data' = spwrite(data, SubSeq(task[t].buf, 1, task[t].len - 1), task[t].offset)
    /\ task' = Goto(t, "c_apply_rest")
    /\ UNCHANGED << clean, counter, dir, ino, nextino, dlock, mutex, config, crashed, fsck,
                    hist >>

\* the second pwrite writes the rest; ts->flags |= J_COMMITED
c_apply_rest(t) ==
    /\ At(t, "c_apply_rest")
    /\ data' = spwrite(data, task[t].buf, task[t].offset)
    /\ task' = [ task EXCEPT ![t].pc = "c_free",
                             ![t].flags = IF HasCommited(@) THEN @ ELSE @ + J_COMMITED ]
    /\ held' = Standing(task[t].offset, task[t].len)
    /\ UNCHANGED << clean, counter, dir, ino, nextino, dlock, mutex, config, crashed, fsck,
                    base, shadow, snap, hung, lastgot, lastacq >>

\* ---- jpread ----
\* a caller issues jpread(fs, buf, count, offset)
jr_call(t) ==
    /\ t \in Tasks /\ At(t, "idle") /\ ~crashed /\ task[t].n < MaxCommits
    /\ \E r \in Ranges :
         task' = [ task EXCEPT ![t] =
                     [ NoTrans EXCEPT !.pc = "r_lock", !.via = "jpread",
                                      !.n = task[t].n + 1,
                                      !.offset = r[1], !.len = r[2] ] ]
    /\ UNCHANGED << clean, data, counter, dir, ino, nextino, dlock, mutex, config,
                    crashed, fsck, hist >>

\* plockf(fs->fd, F_LOCK, offset, count), whatever fs->flags holds
r_lock(t) ==
    /\ At(t, "r_lock")
    /\ LET p == procOf[t]
           r == plockf_range(task[t].offset, task[t].len)
       IN  /\ \A q \in Procs \ {p} : dlock[q] \cap r = {}
           /\ dlock' = [ dlock EXCEPT ![p] = @ \cup r ]
    /\ task' = Goto(t, "r_read")
    /\ UNCHANGED << clean, data, counter, dir, ino, nextino, mutex, config, crashed, fsck,
                    hist >>

\* rv = pread(fs->fd, buf, count, offset)
r_read(t) ==
    /\ At(t, "r_read")
    /\ LET got == spread(data, task[t].len, task[t].offset) IN
         task' = [ task EXCEPT ![t].buf = got, ![t].rv = Len(got), ![t].pc = "r_unlock" ]
    /\ UNCHANGED << clean, data, counter, dir, ino, nextino, dlock, mutex, config,
                    crashed, fsck, hist >>

\* plockf(fs->fd, F_ULOCK, offset, count): the process gives up the range,
\* whichever of its threads had locked it; return rv
r_unlock(t) ==
    /\ At(t, "r_unlock")
    /\ dlock' = [ dlock EXCEPT ![procOf[t]] =
                    @ \ plockf_range(task[t].offset, task[t].len) ]
    /\ task' = [ task EXCEPT ![t].pc = "idle", ![t].ret = task[t].rv ]
    /\ UNCHANGED << clean, data, counter, dir, ino, nextino, mutex, config, crashed, fsck,
                    hist >>

jpread(t) == r_lock(t) \/ r_read(t) \/ r_unlock(t)

\* ---- jtrans_rollback ----
\* the caller rolls back the transaction it last passed to jtrans_commit,
\* whatever that call returned and whatever the flags of the file are: the
\* file is cut back to offset + plen when the commit had extended it, and a new
\* transaction that writes the previous data (plen bytes) at the offset, with
\* the flags of the old one, is committed
jtrans_rollback(t) ==
    /\ t \in Tasks /\ At(t, "idle") /\ ~crashed
    /\ task[t].via = "jtrans_commit"
    /\ data' = IF task[t].plen < task[t].len
               THEN ftruncate(data, task[t].offset + task[t].plen) ELSE data
    /\ task' = [ task EXCEPT ![t] =
                   [ NoTrans EXCEPT !.pc = "c_tid", !.via = "rollback", !.n = task[t].n,
                                    !.flags = task[t].flags, !.offset = task[t].offset,
                                    !.buf = SubSeq(task[t].pdata, 1, task[t].plen),
                                    !.len = task[t].plen ] ]
    /\ held' = [ p \in Positions |->
                   IF p >= task[t].offset /\ (p < task[t].offset + task[t].len
                                               \/ task[t].plen < task[t].len)
                   THEN 0 - 1 ELSE held[p] ]
    /\ UNCHANGED << clean, counter, dir, ino, nextino, dlock, mutex, config, crashed, fsck,
                    base, shadow, snap, hung, lastgot, lastacq >>

\* ---- a crash: every process dies where it stands, a running jfsck too ----
Crash ==
    /\ ~crashed
    /\ crashed' = TRUE
    /\ hung' = { [ id |-> task[t].id, offset |-> task[t].offset, buf |-> task[t].buf ] :
                 t \in { u \in Tasks : At(u, "c_apply") } }
    /\ task' = [ t \in AllTasks |-> [ NoTrans EXCEPT !.pc = "dead" ] ]
    /\ dlock' = [ p \in Procs |-> {} ]
    /\ mutex' = [ p \in Procs |-> 0 ]
    /\ ino' = Gc([ x \in DOMAIN ino |-> [ ino[x] EXCEPT !.lk = 0 ] ], dir, task', 0)
    /\ held' = [ p \in Positions |-> 0 - 1 ]
    /\ lastgot' = [ id |-> 0, lowered |-> FALSE ]
    /\ lastacq' = 0
    /\ fsck' = IF fsck.pc = "f_idle" THEN fsck ELSE [ fsck EXCEPT !.pc = "f_idle", !.tfd = 0 ]
    /\ UNCHANGED << clean, data, counter, dir, nextino, config, base, shadow, snap >>

\* ---- the record format read by recovery ----
RECURSIVE ParseOps(_, _, _)
\* the loop of fill_trans from byte offset p on, with k operations to go
ParseOps(m, p, k) ==
    IF k = 0 THEN [ ok |-> TRUE, ops |-> << >> ]
    ELSE IF p + J_DISKOPHEADSIZE > Len(m) THEN [ ok |-> FALSE, ops |-> << >> ]
    ELSE LET len == Rd32(m, p)
             plen == Rd32(m, p + 4)
             offset == Rd64(m, p + 8)
             q == p + J_DISKOPHEADSIZE
         IN  IF len < 0 \/ q + len > Len(m) THEN [ ok |-> FALSE, ops |-> << >> ]
             ELSE LET rest == ParseOps(m, q + len, k - 1) IN
                    [ ok |-> rest.ok,
                      ops |-> << [ len |-> len, plen |-> plen, offset |-> offset,
                                   buf |-> SubSeq(m, q + 1, q + len) ] >> \o rest.ops ]

fill_trans(m) ==
    IF Len(m) < J_DISKHEADSIZE THEN [ ok |-> FALSE, ops |-> << >> ]
    ELSE IF Rd32(m, 8) < 0 THEN [ ok |-> FALSE, ops |-> << >> ]
    ELSE ParseOps(m, J_DISKHEADSIZE, Rd32(m, 8))

\* csum1 == csum2 in jfsck
ChecksumOk(m) == checksum_map(m, Len(m) - 4) = Rd32(m, Len(m) - 4)

\* a record file in the format fill_trans reads
RecordBytes(id, flags, ops) ==
    LET OpBytes(op) == Le32(op.len) \o Le32(op.plen) \o Le64(op.offset) \o op.buf
        body == Le32(id) \o Le32(flags) \o Le32(Len(ops))
                \o (IF Len(ops) = 0 THEN << >> ELSE OpBytes(ops[1]))
    IN  body \o Le32(checksum_map(body, Len(body)))

\* ---- jfsck ----
NoRes ==
    [ total |-> 0, invalid |-> 0, in_progress |-> 0, broken |-> 0, corrupt |-> 0,
      apply_error |-> 0, reapplied |-> 0,
      broken_head |-> 0, broken_body |-> 0, load_error |-> 0 ]

FsckIdle ==
    [ pc |-> "f_idle", i |-> 0, maxtid |-> 0, tfd |-> 0, runs |-> 0, res |-> NoRes,
      buf |-> "null" ]

Bump(f, c) == [ f EXCEPT !.res[c] = @ + 1 ]

\* the counters are zeroed and the files opened
f_start ==
    /\ crashed /\ fsck.pc = "f_idle" /\ fsck.runs < MaxFsck
    /\ fsck' = [ fsck EXCEPT !.pc = "f_scan", !.res = NoRes, !.i = 0, !.maxtid = 0 ]
    /\ UNCHANGED << clean, data, counter, dir, ino, nextino, dlock, mutex, task, config,
                    crashed, hist >>

\* jfsck is started while another process is committing
f_start_live ==
    /\ ~crashed /\ fsck.pc = "f_idle" /\ fsck.runs = 0
    /\ fsck' = [ fsck EXCEPT !.pc = "f_scan", !.res = NoRes, !.i = 0, !.maxtid = 0 ]
    /\ UNCHANGED << clean, data, counter, dir, ino, nextino, dlock, mutex, task, config,
                    crashed, hist >>

\* the readdir loop: the greatest name that atoi() makes positive
f_scan ==
    /\ fsck.pc = "f_scan"
    /\ LET pos == { n \in Names : n > 0 } IN
         fsck' = [ fsck EXCEPT !.pc = "f_wmax",
                               !.maxtid = IF pos = {} THEN 0 ELSE UMax(pos) ]
    /\ UNCHANGED << clean, data, counter, dir, ino, nextino, dlock, mutex, task, config,
                    crashed, hist >>

\* jfsck going on to the loop with the lock file as the scan found it
f_wmax_skip ==
    /\ fsck.pc = "f_wmax"
    /\ counter' = counter
    /\ lastgot' = [ lastgot EXCEPT !.lowered = @ \/ counter' # counter ]
    /\ fsck' = [ fsck EXCEPT !.pc = "f_loop", !.i = 1 ]
    /\ UNCHANGED << clean, data, dir, ino, nextino, dlock, mutex, task, config, crashed,
                    base, shadow, held, snap, hung, lastacq >>

\* spwrite(fs.jfd, &maxtid, sizeof(maxtid), 0)
f_wmax ==
    /\ fsck.pc = "f_wmax"
    /\ counter' = fsck.maxtid
    /\ lastgot' = [ lastgot EXCEPT !.lowered = @ \/ counter' # counter ]
    /\ fsck' = [ fsck EXCEPT !.pc = "f_loop", !.i = 1 ]
    /\ UNCHANGED << clean, data, dir, ino, nextino, dlock, mutex, task, config, crashed,
                    base, shadow, held, snap, hung, lastacq >>

\* f_loop taking the records from maxtid down to 1
f_loop_desc ==
    /\ fsck.pc = "f_loop"
    /\ IF fsck.i > fsck.maxtid
       THEN /\ fsck' = [ fsck EXCEPT !.pc = "f_idle", !.runs = @ + 1 ]
            /\ snap' = IF fsck.runs = 0 THEN data ELSE snap
            /\ UNCHANGED ino
       ELSE /\ UNCHANGED snap
            /\ IF (fsck.maxtid + 1 - fsck.i) \notin Names
               THEN /\ fsck' = [ Bump(fsck, "invalid") EXCEPT !.pc = "f_tail", !.tfd = 0 ]
                    /\ UNCHANGED ino
               ELSE LET x == dir[fsck.maxtid + 1 - fsck.i] IN
                      IF ino[x].lk \notin {0, FsckProc}
                      THEN /\ fsck' = [ Bump(fsck, "in_progress") EXCEPT
                                          !.pc = "f_tail", !.tfd = x ]
                           /\ UNCHANGED ino
                      ELSE /\ fsck' = [ fsck EXCEPT !.pc = "f_map", !.tfd = x ]
                           /\ ino' = [ ino EXCEPT ![x].lk = FsckProc ]
    /\ UNCHANGED << clean, data, counter, dir, nextino, dlock, mutex, task, config, crashed,
                    base, shadow, held, hung, lastgot, lastacq >>

\* for (i = 1; i <= maxtid; i++): open the record named i and try to lock it
f_loop ==
    /\ fsck.pc = "f_loop"
    /\ IF fsck.i > fsck.maxtid
       THEN /\ fsck' = [ fsck EXCEPT !.pc = "f_idle", !.runs = @ + 1 ]
            /\ snap' = IF fsck.runs = 0 THEN data ELSE snap
            /\ UNCHANGED ino
       ELSE /\ UNCHANGED snap
            /\ IF fsck.i \notin Names
               THEN /\ fsck' = [ Bump(fsck, "invalid") EXCEPT !.pc = "f_tail", !.tfd = 0 ]
                    /\ UNCHANGED ino
               ELSE LET x == dir[fsck.i] IN
                      IF ino[x].lk \notin {0, FsckProc}
                      THEN /\ fsck' = [ Bump(fsck, "in_progress") EXCEPT
                                          !.pc = "f_tail", !.tfd = x ]
                           /\ UNCHANGED ino
                      ELSE /\ fsck' = [ fsck EXCEPT !.pc = "f_map", !.tfd = x ]
                           /\ ino' = [ ino EXCEPT ![x].lk = FsckProc ]
    /\ UNCHANGED << clean, data, counter, dir, nextino, dlock, mutex, task, config, crashed,
                    base, shadow, held, hung, lastgot, lastacq >>

\* the transaction handed to jtrans_commit: the commit of src/libjio.c takes
\* one (buf, len, offset); records of several operations are not among the
\* inputs of the model
ReplayTrans(ops) ==
    IF Len(ops) = 0 THEN [ NoTrans EXCEPT !.pc = "c_tid", !.via = "jfsck" ]
    ELSE [ NoTrans EXCEPT !.pc = "c_tid", !.via = "jfsck", !.offset = ops[1].offset,
                          !.len = ops[1].len, !.buf = ops[1].buf ]

\* f_map without the comparison of csum1 with csum2
f_map_nocsum ==
    /\ fsck.pc = "f_map"
    /\ LET m == ino[fsck.tfd].bytes
           ts == fill_trans(m)
       IN  IF Len(m) = 0 \/ ~ts.ok
           THEN /\ fsck' = [ Bump(fsck, "broken") EXCEPT !.pc = "f_tail" ]
                /\ UNCHANGED << task, nolock >>
           ELSE /\ Len(ts.ops) <= 1
                /\ fsck' = [ fsck EXCEPT !.pc = "f_commit" ]
                /\ task' = [ task EXCEPT ![FsckTask] = ReplayTrans(ts.ops) ]
                /\ \E nl \in BOOLEAN : nolock' = [ nolock EXCEPT ![FsckProc] = nl ]
    /\ UNCHANGED << clean, data, counter, dir, ino, nextino, dlock, mutex, procOf, norollback,
                    wrapper,
                    crashed, hist >>

\* mmap, fill_trans, the checksum; a good record has its flags cleared and is
\* committed again.  jfsck never assigns fs.flags: the commit finds J_NOLOCK
\* set or clear
f_map ==
    /\ fsck.pc = "f_map"
    /\ LET m == ino[fsck.tfd].bytes
           ts == fill_trans(m)
       IN  IF Len(m) = 0 \/ ~ts.ok
           THEN /\ fsck' = [ Bump(fsck, "broken") EXCEPT !.pc = "f_tail" ]
                /\ UNCHANGED << task, nolock >>
           ELSE IF ~ChecksumOk(m)
           THEN /\ fsck' = [ Bump(fsck, "corrupt") EXCEPT !.pc = "f_tail" ]
                /\ UNCHANGED << task, nolock >>
           ELSE /\ Len(ts.ops) <= 1
                /\ fsck' = [ fsck EXCEPT !.pc = "f_commit" ]
                /\ task' = [ task EXCEPT ![FsckTask] = ReplayTrans(ts.ops) ]
                /\ \E nl \in BOOLEAN : nolock' = [ nolock EXCEPT ![FsckProc] = nl ]
    /\ UNCHANGED << clean, data, counter, dir, ino, nextino, dlock, mutex, procOf, norollback,
                    wrapper,
                    crashed, hist >>

\* rv = jtrans_commit(curts) has returned
f_commit ==
    /\ fsck.pc = "f_commit" /\ At(FsckTask, "c_ret")
    /\ fsck' = [ Bump(fsck, IF task[FsckTask].ret < 0 THEN "apply_error" ELSE "reapplied")
                   EXCEPT !.pc = "f_tail" ]
    /\ task' = [ task EXCEPT ![FsckTask] = NoTrans ]
    /\ UNCHANGED << clean, data, counter, dir, ino, nextino, dlock, mutex, config, crashed, hist >>

\* a loop tail that does not count the record
f_tail_nocount ==
    /\ fsck.pc = "f_tail"
    /\ fsck' = [ fsck EXCEPT !.pc = "f_loop", !.i = @ + 1, !.tfd = 0 ]
    /\ LET x == fsck.tfd
           i1 == IF x \in DOMAIN ino /\ ino[x].lk = FsckProc
                 THEN [ ino EXCEPT ![x].lk = 0 ] ELSE ino
       IN  ino' = Gc(i1, dir, task, 0)
    /\ UNCHANGED << clean, data, counter, dir, nextino, dlock, mutex, task, config, crashed, hist >>

\* loop: close(tfd); res->total++
f_tail ==
    /\ fsck.pc = "f_tail"
    /\ fsck' = [ Bump(fsck, "total") EXCEPT !.pc = "f_loop", !.i = @ + 1, !.tfd = 0 ]
    /\ LET x == fsck.tfd
           i1 == IF x \in DOMAIN ino /\ ino[x].lk = FsckProc
                 THEN [ ino EXCEPT ![x].lk = 0 ] ELSE ino
       IN  ino' = Gc(i1, dir, task, 0)
    /\ UNCHANGED << clean, data, counter, dir, nextino, dlock, mutex, task, config, crashed, hist >>

jfsck == f_start \/ f_scan \/ f_wmax \/ f_loop \/ f_map \/ f_commit \/ f_tail

\* ---- the jfsck of src/libjio.c ----
\* the value of "(int) *(buf + k)": one char of the head, sign-extended
CharAt(m, k) == IF m[k + 1] < 128 THEN m[k + 1] ELSE m[k + 1] - 256

\* maxtid is the counter of the lock file, read under its lock
o_start ==
    /\ fsck.pc = "f_idle" /\ fsck.runs < (IF crashed THEN MaxFsck ELSE 1)
    /\ fsck' = [ fsck EXCEPT !.pc = "o_loop", !.res = NoRes, !.i = 1, !.maxtid = counter,
                             !.buf = "null" ]
    /\ UNCHANGED << clean, data, counter, dir, ino, nextino, dlock, mutex, task, config,
                    crashed, hist >>

\* for (i = 1; i <= maxtid; i++): open the record named i, then
\* plockf(fd, F_TLOCK, 0, 0) on fd, the data file.  jfsck returns without
\* closing fd: its lock on the data file ends with the process, taken here to
\* exit when jfsck has returned
o_loop ==
    /\ fsck.pc = "o_loop"
    /\ IF fsck.i > fsck.maxtid
       THEN /\ fsck' = [ fsck EXCEPT !.pc = "f_idle", !.runs = @ + 1 ]
            /\ snap' = IF fsck.runs = 0 THEN data ELSE snap
            /\ dlock' = [ dlock EXCEPT ![FsckProc] = {} ]
       ELSE /\ UNCHANGED snap
            /\ IF fsck.i \notin Names
               THEN /\ fsck' = [ Bump(fsck, "invalid") EXCEPT !.pc = "o_tail", !.tfd = 0 ]
                    /\ UNCHANGED dlock
               ELSE IF \E q \in Procs \ {FsckProc} : dlock[q] # {}
               THEN /\ fsck' = [ Bump(fsck, "in_progress") EXCEPT
                                   !.pc = "o_tail", !.tfd = dir[fsck.i] ]
                    /\ UNCHANGED dlock
               ELSE /\ fsck' = [ fsck EXCEPT !.pc = "o_head", !.tfd = dir[fsck.i] ]
                    /\ dlock' = [ dlock EXCEPT ![FsckProc] = plockf_range(0, 0) ]
    /\ UNCHANGED << clean, data, counter, dir, ino, nextino, mutex, task, config, crashed,
                    base, shadow, held, hung, lastgot, lastacq >>

\* buf = malloc(J_DISKTFIXSIZE); read the head; flags, len, ulen and offset
\* are each taken from one char of it; the size of the file is compared with
\* J_DISKTFIXSIZE + len + ulen + plen, plen being 0; malloc(curts->plen) is
\* malloc(0), which may return NULL; then the new data is read from behind the
\* user data and the transaction is committed.  fs.flags was never assigned
o_head ==
    /\ fsck.pc = "o_head"
    /\ LET m == ino[fsck.tfd].bytes IN
         IF Len(m) < J_DISKTFIXSIZE
         THEN /\ fsck' = [ Bump(fsck, "broken_head") EXCEPT !.pc = "o_tail", !.buf = "live" ]
              /\ UNCHANGED << task, nolock >>
         ELSE LET flags  == CharAt(m, 4)
                  len    == CharAt(m, 8)
                  ulen   == CharAt(m, 16)
                  offset == CharAt(m, 20)
              IN  IF len < 0 \/ ulen < 0 \/ Len(m) # J_DISKTFIXSIZE + len + ulen
                  THEN /\ fsck' = [ Bump(fsck, "broken_body") EXCEPT
                                      !.pc = "o_tail", !.buf = "live" ]
                       /\ UNCHANGED << task, nolock >>
                  ELSE \/ /\ fsck' = [ Bump(fsck, "load_error") EXCEPT
                                         !.pc = "o_tail", !.buf = "live" ]
                          /\ UNCHANGED << task, nolock >>
                       \/ /\ offset >= 0
                          /\ fsck' = [ fsck EXCEPT !.pc = "o_commit", !.buf = "live" ]
                          /\ task' = [ task EXCEPT ![FsckTask] =
                                 [ NoTrans EXCEPT
                                     !.pc = "c_tid", !.via = "jfsck",
                                     !.flags = flags % 256, !.offset = offset, !.len = len,
                                     !.buf = SubSeq(m, J_DISKTFIXSIZE + ulen + 1,
                                                    J_DISKTFIXSIZE + ulen + len) ] ]
                          /\ \E nl \in BOOLEAN : nolock' = [ nolock EXCEPT ![FsckProc] = nl ]
    /\ UNCHANGED << clean, data, counter, dir, ino, nextino, dlock, mutex, procOf, norollback,
                    wrapper,
                    crashed, hist >>

\* rv = jtrans_commit(curts) has returned
o_commit ==
    /\ fsck.pc = "o_commit" /\ At(FsckTask, "c_ret")
    /\ fsck' = [ Bump(fsck, IF task[FsckTask].ret < 0 THEN "apply_error" ELSE "reapplied")
                   EXCEPT !.pc = "o_tail" ]
    /\ task' = [ task EXCEPT ![FsckTask] = NoTrans ]
    /\ UNCHANGED << clean, data, counter, dir, ino, nextino, dlock, mutex, config, crashed, hist >>

\* loop: close(tfd); res->total++; if (buf) free(buf).  buf is not reset after
\* free: in an iteration that jumped here before its malloc, buf is the block
\* an earlier iteration freed, and freeing it again either goes unnoticed or
\* ends the process
o_tail ==
    /\ fsck.pc = "o_tail"
    /\ LET x == fsck.tfd
           i1 == IF x \in DOMAIN ino /\ ino[x].lk = FsckProc
                 THEN [ ino EXCEPT ![x].lk = 0 ] ELSE ino
       IN  \/ /\ fsck' = [ Bump(fsck, "total") EXCEPT
                             !.pc = "o_loop", !.i = @ + 1, !.tfd = 0,
                             !.buf = IF fsck.buf = "null" THEN "null" ELSE "freed" ]
              /\ ino' = Gc(i1, dir, task, 0)
              /\ UNCHANGED dlock
           \/ /\ fsck.buf = "freed"
              /\ fsck' = [ Bump(fsck, "total") EXCEPT !.pc = "o_abort", !.tfd = 0 ]
              /\ ino' = Gc(i1, dir, task, 0)
              /\ dlock' = [ dlock EXCEPT ![FsckProc] = {} ]
    /\ UNCHANGED << clean, data, counter, dir, nextino, mutex, task, config, crashed, hist >>

jfsck_libjio == o_start \/ o_loop \/ o_head \/ o_commit \/ o_tail

\* ---- jfsck_cleanup ----
\* names are sequences of characters
DigitVal ==
    [ c \in {"0", "1", "2", "3", "4", "5", "6", "7", "8", "9"} |->
        CASE c = "0" -> 0 [] c = "1" -> 1 [] c = "2" -> 2 [] c = "3" -> 3 [] c = "4" -> 4
          [] c = "5" -> 5 [] c = "6" -> 6 [] c = "7" -> 7 [] c = "8" -> 8 [] c = "9" -> 9 ]

DigitChar == << "1", "2", "3", "4", "5", "6", "7", "8", "9" >>

RECURSIVE AtoiDigits(_, _, _)
\* the digits of s from position k on, up to the first character that is none
AtoiDigits(s, k, acc) ==
    IF k > Len(s) \/ s[k] \notin DOMAIN DigitVal THEN acc
    ELSE AtoiDigits(s, k + 1, 10 * acc + DigitVal[s[k]])

RECURSIVE SkipSpace(_, _)
SkipSpace(s, k) == IF k <= Len(s) /\ s[k] = " " THEN SkipSpace(s, k + 1) ELSE k

\* atoi(): white space, an optional sign, then digits; what follows is ignored
atoi(s) ==
    LET k  == SkipSpace(s, 1)
        sg == k <= Len(s) /\ s[k] \in {"+", "-"}
        v  == AtoiDigits(s, IF sg THEN k + 1 ELSE k, 0)
    IN  IF sg /\ s[k] = "-" THEN 0 - v ELSE v

RECURSIVE Decimal(_)
\* the name get_jtfile gives the record of id n
Decimal(n) ==
    IF n < 10 THEN IF n = 0 THEN << "0" >> ELSE << DigitChar[n] >>
    ELSE Decimal(n \div 10) \o (IF n % 10 = 0 THEN << "0" >> ELSE << DigitChar[n % 10] >>)

LockName == << "l", "o", "c", "k" >>

\* file names found in a journal directory beside the records and the lock
Foreign ==
    { << "x" >>, << "1", "a" >>, << "2", ".", "b", "a", "k" >>, << " ", "3" >>,
      << "-", "1" >>, << "0" >>, << "l", "o", "c", "k", "2" >> }

CleanIdle == [ pc |-> "idle", todo |-> {}, lock |-> TRUE, jdir |-> TRUE, ret |-> 0, runs |-> 0 ]

\* opendir(path): the directory is gone (return 1), or its entries are there
\* to be read
jc_open ==
    /\ crashed /\ fsck.pc = "f_idle"
    /\ cleanup.pc = "idle" /\ cleanup.runs < MaxCleanup
    /\ cleanup' =
         IF ~cleanup.jdir
         THEN [ cleanup EXCEPT !.ret = 1, !.runs = @ + 1 ]
         ELSE [ cleanup EXCEPT !.pc = "readdir",
                  !.todo = { << "." >>, << ".", "." >> }
                             \cup (IF cleanup.lock THEN { LockName } ELSE {})
                             \cup { Decimal(n) : n \in Names } \cup others ]
    /\ UNCHANGED << data, counter, dir, ino, nextino, dlock, mutex, task, config,
                    crashed, fsck, hist, others, jlock, tidop, jsize, fpos, iov >>

\* one turn of the readdir loop, the entries in any order: an entry that is
\* not "lock" and that atoi() does not make positive is skipped, any other is
\* unlinked; after the last entry, closedir and rmdir, which fails on a
\* directory that is not empty
jc_readdir ==
    /\ cleanup.pc = "readdir"
    /\ IF cleanup.todo = {}
       THEN /\ LET empty == Names = {} /\ ~cleanup.lock /\ others = {} IN
                 cleanup' = [ cleanup EXCEPT !.pc = "idle", !.runs = @ + 1,
                                             !.ret = IF empty THEN 1 ELSE 0,
                                             !.jdir = ~empty ]
            /\ UNCHANGED << dir, ino, others >>
       ELSE \E d \in cleanup.todo :
              IF d # LockName /\ atoi(d) <= 0
              THEN /\ cleanup' = [ cleanup EXCEPT !.todo = @ \ {d} ]
                   /\ UNCHANGED << dir, ino, others >>
              ELSE /\ cleanup' = [ cleanup EXCEPT !.todo = @ \ {d},
                                     !.lock = IF d = LockName THEN FALSE ELSE @ ]
                   /\ others' = others \ {d}
                   /\ dir' = [ n \in { m \in Names : Decimal(m) # d } |-> dir[n] ]
                   /\ ino' = Gc(ino, dir', task, fsck.tfd)
    /\ UNCHANGED << data, counter, nextino, dlock, mutex, task, config, crashed, fsck,
                    hist, jlock, tidop, jsize, fpos, iov >>

jfsck_cleanup == jc_open \/ jc_readdir

\* ---- jwrite and jwritev ----
RECURSIVE SumLens(_, _)
\* for (i = 0; i < count; i++) sum += vector[i].iov_len
SumLens(vector, count) ==
    IF count = 0 THEN 0 ELSE SumLens(vector, count - 1) + vector[count]

RECURSIVE Unify(_, _, _)
\* the buffers of the vector copied one after the other into one chunk; the
\* i-th buffer holds bytes of the value v + i
Unify(vector, count, v) ==
    IF count = 0 THEN << >>
    ELSE Unify(vector, count - 1, v) \o Fill(vector[count], v + count)

\* the iovecs passed: one or two buffers of 1..MaxLen bytes each
Vectors ==
    { << a >> : a \in 1..MaxLen }
      \cup { << a, b >> : a \in 1..MaxLen, b \in 1..MaxLen }

\* jwrite(fs, buf, count) and jwritev(fs, vector, count) up to the call of
\* jtrans_commit: the mutex, pos = lseek(fs->fd, 0, SEEK_CUR), ts.offset = pos
jw_call(t) ==
    /\ t \in Tasks /\ At(t, "idle") /\ ~crashed /\ task[t].n < MaxCommits
    /\ iov[t] = << >> /\ mutex[procOf[t]] = 0
    /\ \E fn \in {"jwrite", "jwritev"}, vector \in Vectors :
         LET sum == SumLens(vector, Len(vector)) IN
           /\ fn = "jwrite" => Len(vector) = 1
           /\ fpos[procOf[t]] + sum <= MaxPos + 1
           /\ iov' = [ iov EXCEPT ![t] = vector ]
           /\ task' = [ task EXCEPT ![t] =
                          [ NoTrans EXCEPT !.pc = "c_tid", !.via = fn,
                                           !.n = task[t].n + 1,
                                           !.offset = fpos[procOf[t]], !.len = sum,
                                           !.buf = Unify(vector, Len(vector),
                                                         10 * task[t].n + 10) ] ]
    /\ mutex' = [ mutex EXCEPT ![procOf[t]] = t ]
    /\ UNCHANGED << data, counter, dir, ino, nextino, dlock, config, crashed, fsck, hist,
                    others, cleanup, jlock, tidop, jsize, fpos >>

\* jtrans_commit has returned: if (rv >= 0) lseek(fs->fd, count, SEEK_CUR),
\* where count is the byte count in jwrite and the number of buffers in
\* jwritev; pthread_mutex_unlock; return rv
jw_ret(t) ==
    /\ t \in Tasks /\ At(t, "idle") /\ iov[t] # << >>
    /\ LET count == IF task[t].via = "jwrite" THEN iov[t][1] ELSE Len(iov[t]) IN
         fpos' = [ fpos EXCEPT ![procOf[t]] = IF task[t].ret >= 0 THEN @ + count ELSE @ ]
    /\ iov' = [ iov EXCEPT ![t] = << >> ]
    /\ mutex' = [ mutex EXCEPT ![procOf[t]] = 0 ]
    /\ UNCHANGED << data, counter, dir, ino, nextino, dlock, task, config, crashed, fsck,
                    hist, others, cleanup, jlock, tidop, jsize >>

\* ---- initial states ----
\* a data file of MaxInitLen bytes and the journal directory as jopen makes
\* it: no record, the counter initialised to 1
InitFresh ==
    /\ data = Fill(MaxInitLen, 9)
    /\ counter = 1
    /\ dir = << >>
    /\ ino = << >>
    /\ nextino = 1
    /\ crashed = FALSE
    /\ shadow = data

\* the records a crash can leave under the names 1..MaxRec: none, a whole
\* record, a record whose last byte is damaged, a record cut short
RecKinds ==
    {[ kind |-> "none", r |-> << 0, 0 >> ]}
      \cup { [ kind |-> "good", r |-> r ] : r \in Ranges }
      \cup { [ kind |-> k, r |-> << 0, MaxLen >> ] : k \in {"corrupt", "short"} }

OpOf(id, r) ==
    [ len |-> r[2], plen |-> 0, offset |-> r[1], buf |-> Fill(r[2], 20 + id) ]

RecFile(id, k) ==
    LET whole == RecordBytes(id, 0, << OpOf(id, k.r) >>) IN
      IF k.kind = "good" THEN whole
      ELSE IF k.kind = "corrupt"
      THEN [ whole EXCEPT ![Len(whole)] = (@ + 1) % 256 ]
      ELSE SubSeq(whole, 1, Len(whole) - 5)

RECURSIVE ApplyGood(_, _, _)
\* f with the whole records among ks[j..MaxRec] applied in the order of their names
ApplyGood(f, ks, j) ==
    IF j > MaxRec THEN f
    ELSE ApplyGood(IF ks[j].kind = "good"
                   THEN spwrite(f, Fill(ks[j].r[2], 20 + j), ks[j].r[1]) ELSE f, ks, j + 1)

\* records left in the journal directory by an earlier crash
InitLeft ==
    /\ \E n \in 0..MaxInitLen : data = Fill(n, 9)
    /\ counter = MaxRec
    /\ \E ks \in [ 1..MaxRec -> RecKinds ] :
         /\ dir = [ id \in { j \in 1..MaxRec : ks[j].kind # "none" } |-> id ]
         /\ ino = [ id \in { j \in 1..MaxRec : ks[j].kind # "none" } |->
                      [ bytes |-> RecFile(id, ks[id]), lk |-> 0 ] ]
         /\ shadow = ApplyGood(data, ks, 1)
    /\ nextino = MaxRec + 1

InitRecover ==
    /\ InitLeft
    /\ crashed = TRUE

\* no call under way, no jfsck, no jfsck_cleanup
InitRun ==
    /\ dlock = [ p \in Procs |-> {} ]
    /\ mutex = [ p \in Procs |-> 0 ]
    /\ task = [ t \in AllTasks |-> IF crashed /\ t \in Tasks
                                   THEN [ NoTrans EXCEPT !.pc = "dead" ] ELSE NoTrans ]
    /\ nolock = [ p \in Procs |-> FALSE ]
    /\ fsck = FsckIdle
    /\ base = data
    /\ held = [ p \in Positions |-> 0 - 1 ]
    /\ snap = << >>
    /\ hung = {}
    /\ lastgot = [ id |-> 0, lowered |-> FALSE ]
    /\ lastacq = 0
    /\ cleanup = CleanIdle
    /\ jlock = [ p \in Procs |-> FALSE ]
    /\ tidop = [ t \in Tasks |-> TidIdle ]
    /\ fpos = [ p \in Procs |-> 0 ]
    /\ iov = [ t \in Tasks |-> << >> ]

InitRest == InitRun /\ others = {} /\ jsize = 4

\* two processes, each with a jfs of its own, or a journal found after a crash
Init ==
    /\ InitFresh \/ InitRecover
    /\ procOf = [ t \in AllTasks |-> t ]
    /\ wrapper = FALSE
    /\ norollback = [ p \in Procs |-> FALSE ]
    /\ InitRest

\* two threads of one process that share a jfs
InitThreads ==
    /\ InitFresh
    /\ procOf = [ t \in AllTasks |-> IF t = FsckTask THEN FsckProc ELSE 1 ]
    /\ wrapper \in BOOLEAN
    /\ norollback = [ p \in Procs |-> FALSE ]
    /\ InitRest

\* one process that commits and rolls back, on data files of several lengths
InitRollback ==
    /\ \E n \in 0..(MaxOff + 1) : data = Fill(n, 9)
    /\ counter = 1
    /\ dir = << >>
    /\ ino = << >>
    /\ nextino = 1
    /\ crashed = FALSE
    /\ shadow = data
    /\ procOf = [ t \in AllTasks |-> t ]
    /\ wrapper = FALSE
    /\ norollback = [ p \in Procs |-> FALSE ]
    /\ InitRest

\* the same, the file opened with J_NOROLLBACK or without
InitRollbackAny ==
    /\ \E n \in 0..(MaxOff + 1) : data = Fill(n, 9)
    /\ counter = 1
    /\ dir = << >>
    /\ ino = << >>
    /\ nextino = 1
    /\ crashed = FALSE
    /\ shadow = data
    /\ procOf = [ t \in AllTasks |-> t ]
    /\ wrapper = FALSE
    /\ \E b \in BOOLEAN : norollback = [ p \in Procs |-> b ]
    /\ InitRest

\* a writer and a reader, two processes or two threads of one process
InitRead ==
    /\ \E n \in 0..MaxLen : data = Fill(n, 9)
    /\ counter = 1
    /\ dir = << >>
    /\ ino = << >>
    /\ nextino = 1
    /\ crashed = FALSE
    /\ shadow = data
    /\ \/ procOf = [ t \in AllTasks |-> t ]
       \/ procOf = [ t \in AllTasks |-> IF t = FsckTask THEN FsckProc ELSE 1 ]
    /\ wrapper = FALSE
    /\ norollback = [ p \in Procs |-> FALSE ]
    /\ InitRest

\* a journal with records left by an earlier crash, a process that has opened
\* the file again and commits, and jfsck run by another process meanwhile
InitLive ==
    /\ InitLeft
    /\ crashed = FALSE
    /\ procOf = [ t \in AllTasks |-> t ]
    /\ wrapper = FALSE
    /\ norollback = [ p \in Procs |-> FALSE ]
    /\ InitRest

\* a fresh journal beside a data file that is empty or not, two processes
InitOld ==
    /\ \E n \in 0..MaxInitLen : data = Fill(n, 9)
    /\ counter = 1
    /\ dir = << >>
    /\ ino = << >>
    /\ nextino = 1
    /\ crashed = FALSE
    /\ shadow = data
    /\ procOf = [ t \in AllTasks |-> t ]
    /\ wrapper = FALSE
    /\ norollback = [ p \in Procs |-> FALSE ]
    /\ InitRest

\* a journal left by a crash, with other files in its directory
InitCleanup ==
    /\ InitLeft
    /\ crashed = TRUE
    /\ procOf = [ t \in AllTasks |-> t ]
    /\ wrapper = FALSE
    /\ norollback = [ p \in Procs |-> FALSE ]
    /\ InitRun
    /\ jsize = 4
    /\ others \in { S \in SUBSET Foreign : Cardinality(S) <= MaxOthers }

Next ==
    \/ \E t \in Tasks : Call(t)
    \/ \E t \in AllTasks : Commit(t)
    \/ Crash
    \/ jfsck

NextThreads ==
    \/ \E t \in Tasks : Call(t) \/ jp_lock(t) \/ jp_unlock(t)
    \/ \E t \in Tasks : Commit(t)

NextRollback ==
    \E t \in {1} : Call(t) \/ Commit(t) \/ jtrans_rollback(t)

\* one process commits, the write to the data file may fail, and rolls back
NextRollbackAny ==
    \E t \in {1} : Call(t) \/ Commit(t) \/ c_apply_fail(t) \/ jtrans_rollback(t)

\* task 1 commits once, its apply in one pwrite or in two; task 2 reads
NextRead ==
    \/ \E t \in {1} : task[t].n = 0 /\ Call(t)
    \/ \E t \in {1} : Commit(t) \/ c_apply_part(t) \/ c_apply_rest(t)
    \/ \E t \in {2} : jr_call(t) \/ jpread(t)

NextLive ==
    \/ \E t \in {1} : task[t].n = 0 /\ Call(t)
    \/ \E t \in {1, FsckTask} : Commit(t)
    \/ f_start_live \/ f_scan \/ f_wmax \/ f_loop \/ f_map \/ f_commit \/ f_tail

NextOld ==
    \/ \E t \in Tasks : task[t].n = 0 /\ Call(t)
    \/ \E t \in AllTasks : Commit(t)
    \/ Crash
    \/ jfsck_libjio

\* two processes commit once each; any step before the fsync may fail
NextFail ==
    \/ \E t \in Tasks : task[t].n = 0 /\ Call(t)
    \/ \E t \in Tasks : Commit(t)
    \/ \E t \in Tasks : CommitFail(t)

\* one process commits once and the write to the data file may fail; when
\* the commit has returned the process ends and the jfsck of src/libjio.c runs
NextApplyFail ==
    \/ \E t \in {1} : task[t].n = 0 /\ Call(t)
    \/ \E t \in {1, FsckTask} : Commit(t)
    \/ \E t \in {1} : c_apply_fail(t)
    \/ (At(1, "idle") /\ task[1].n = 1 /\ Crash)
    \/ (crashed /\ jfsck_libjio)

NextCleanup == jfsck_cleanup

Spec == Init /\ [][Next]_vars

SpecCleanup == InitCleanup /\ [][NextCleanup]_vars

SpecFail == InitOld /\ [][NextFail]_vars

SpecApplyFail == InitOld /\ [][NextApplyFail]_vars

SpecOld == InitOld /\ [][NextOld]_vars

SpecLive == InitLive /\ [][NextLive]_vars

SpecRollback == InitRollback /\ [][NextRollback]_vars

SpecRollbackAny == InitRollbackAny /\ [][NextRollbackAny]_vars

SpecRead == InitRead /\ [][NextRead]_vars

SpecThreads == InitThreads /\ [][NextThreads]_vars

\* ---------------------------------------------------------------------------
\* Properties
\* ---------------------------------------------------------------------------

\* C1: after a crash at any point of a commit, once jfsck has run the data file
\* holds whole transactions only: it is the file made of the initial contents
\* and of every transaction whose record was fsynced, each applied in full, and
\* a transaction whose record was not fsynced changed neither the contents nor
\* the length of the file.
C1_CrashAtomic ==
    (crashed /\ fsck.runs >= 1 /\ fsck.pc = "f_idle") => data = shadow

\* C2: no step of a commit changes the data file before the fsync of its record
\* file has completed: the only step of a task that changes the data file is
\* the apply step, which follows the fsync.
C2_NoChangeBeforeFsync ==
    [][ \A t \in AllTasks :
          (data' # data /\ task'[t].pc # task[t].pc) => At(t, "c_apply") ]_vars

\* C3: when a commit was cut by a crash after the fsync of its record and before
\* the end of its apply writes, the jfsck that follows counts its record as
\* reapplied and the data file then holds the new bytes at the offset.
C3_HungReapplied ==
    (crashed /\ fsck.runs >= 1 /\ fsck.pc = "f_idle") =>
        /\ fsck.res.reapplied >= Cardinality(hung)
        /\ \A h \in hung : spread(data, Len(h.buf), h.offset) = h.buf

C5_CommittedStay ==
    \A p \in Positions :
        held[p] # 0 - 1 => (p < Len(data) /\ data[p + 1] = held[p])

\* C6: replaying the journal is idempotent: a second jfsck, which applies again
\* every record that passes the parse and the checksum, leaves the data file
\* byte for byte as the first jfsck left it.
C6_ReplayIdempotent ==
    (fsck.runs >= 2 /\ fsck.pc = "f_idle") => data = snap

\* a second jfsck has reapplied records and the data file is not the one found
C6_Witness ==
    /\ fsck.runs >= 2 /\ fsck.pc = "f_idle"
    /\ fsck.res.reapplied >= 1
    /\ data # base

\* C7: no two transactions that are live at the same time (each between its
\* get_tid and its free_tid) carry the same id.
C7_LiveIdsDiffer ==
    \A t, u \in AllTasks :
        ( /\ t # u
          /\ task[t].pc \in {"c_open", "c_flock", "c_dlock", "c_whead", "c_read", "c_trunc",
                             "c_wpdata", "c_wbuf", "c_fsync", "c_apply", "c_free"}
          /\ task[u].pc \in {"c_open", "c_flock", "c_dlock", "c_whead", "c_read", "c_trunc",
                             "c_wpdata", "c_wbuf", "c_fsync", "c_apply", "c_free"} )
        => task[t].lid # task[u].lid

\* C8 (as stated): successive get_tid calls on one lock file return strictly
\* increasing ids, apart from the wrap from the greatest id to 1: no id is
\* handed out twice.
C8_AlwaysIncreasing ==
    [][ \A t \in AllTasks :
          (At(t, "c_tid") /\ task'[t].pc = "c_open")
              => (ULess(lastgot.id, task'[t].lid) \/ lastgot.id = 0 - 1) ]_vars

\* C8 (amended): get_tid returns the counter plus one, never 0, and as long as
\* no free_tid and no jfsck has rewritten the counter to another value since
\* the previous get_tid, the id is greater than the previous one (apart from
\* the wrap to 1).
C8_IncreasingUntilLowered ==
    [][ \A t \in AllTasks :
          (At(t, "c_tid") /\ task'[t].pc = "c_open")
              => /\ task'[t].lid # 0
                 /\ task'[t].lid = counter'
                 /\ counter # 0 - 1 => task'[t].lid = Inc32(counter)
                 /\ ~lastgot.lowered
                      => (ULess(lastgot.id, task'[t].lid) \/ lastgot.id = 0 - 1) ]_vars

\* two get_tid calls have followed one another with the counter left alone in
\* between: two transactions are live with ids 2 and 3
C8_Witness ==
    \E t, u \in Tasks :
        /\ task[t].pc = "c_open" /\ task[t].lid = 3 /\ lastgot.id = 3
        /\ task[u].lid = 2 /\ task[u].pc # "idle"
        /\ ~lastgot.lowered

\* C9: two commits on the same data file, opened without J_NOLOCK, whose ranges
\* overlap are never both between taking the range lock on the data file and
\* releasing it.
C9_OverlapExcluded ==
    \A t, u \in Tasks :
        ( /\ t # u
          /\ ~nolock[procOf[t]] /\ ~nolock[procOf[u]]
          /\ Overlap(task[t].offset, task[t].len, task[u].offset, task[u].len) )
        => ~( /\ task[t].pc \in {"c_whead", "c_read", "c_trunc", "c_wpdata", "c_wbuf",
                                 "c_fsync", "c_apply", "c_free", "c_unlink", "c_close",
                                 "c_dunlock"}
              /\ task[u].pc \in {"c_whead", "c_read", "c_trunc", "c_wpdata", "c_wbuf",
                                 "c_fsync", "c_apply", "c_free", "c_unlink", "c_close",
                                 "c_dunlock"} )

\* C10: of two concurrent commits to disjoint ranges of the same data file,
\* neither waits for the other to finish its record write, its fsync or its
\* apply, commits issued through jpwrite on one jfs included.
C10_DisjointNoWait ==
    \A t, u \in Tasks :
        ( /\ t # u
          /\ ~Overlap(task[t].offset, task[t].len, task[u].offset, task[u].len)
          /\ task[u].pc \in {"c_whead", "c_read", "c_trunc", "c_wpdata", "c_wbuf",
                             "c_fsync", "c_apply"} )
        => ~( At(t, "jp_lock") /\ mutex[procOf[t]] = u )

\* C11: of two concurrent commits (no J_NOLOCK) to overlapping ranges, once both
\* have applied, every byte of the overlap is the byte of the commit that took
\* the range lock last, and the previous data that commit captured there is
\* what the other commit wrote.
C11_LastLockerWins ==
    \A t, u \in Tasks :
        ( /\ t # u /\ lastacq = t /\ task[t].n = 1
          /\ \A w \in Tasks \ {t, u} : task[w].n = 0
          /\ ~nolock[procOf[t]] /\ ~nolock[procOf[u]]
          /\ HasCommited(task[t].flags) /\ HasCommited(task[u].flags)
          /\ task[t].pc \in {"c_free", "c_unlink", "c_close", "c_dunlock", "idle", "jp_unlock"}
          /\ task[u].pc \in {"c_free", "c_unlink", "c_close", "c_dunlock", "idle", "jp_unlock"} )
        => \A p \in plockf_range(task[t].offset, task[t].len)
                      \cap plockf_range(task[u].offset, task[u].len) :
               /\ p < Len(data)
               /\ data[p + 1] = task[t].buf[p - task[t].offset + 1]
               /\ p - task[t].offset < Len(task[t].pdata)
               /\ task[t].pdata[p - task[t].offset + 1] = task[u].buf[p - task[u].offset + 1]

\* C12: when a committed transaction is rolled back and nothing else has
\* touched the file since its commit began, the data file is again what it was
\* before the commit, contents and length, wherever the offset lies.
C12_RollbackRestores ==
    \A t \in Tasks :
        ( /\ task[t].via = "rollback" /\ At(t, "idle") /\ task[t].n = 1
          /\ \A w \in Tasks \ {t} : task[w].n = 0 )
        => data = base

C14_FsckGoesOn ==
    /\ (fsck.pc = "f_idle" /\ fsck.runs >= 1) =>
          /\ fsck.res.total = fsck.maxtid
          /\ fsck.res.total = fsck.res.invalid + fsck.res.in_progress + fsck.res.broken
                                + fsck.res.corrupt + fsck.res.apply_error
                                + fsck.res.reapplied
    /\ fsck.pc \in {"f_scan", "f_wmax", "f_loop", "f_map", "f_commit", "f_tail"} =>
          \/ ENABLED (f_scan \/ f_wmax \/ f_loop \/ f_map \/ f_commit \/ f_tail
                        \/ Commit(FsckTask))
          \/ /\ At(FsckTask, "c_flock")
             /\ ino[task[FsckTask].fd].lk \in Tasks
          \/ /\ At(FsckTask, "c_dlock")
             /\ \E q \in Tasks : dlock[q] # {}

\* C14 (the jfsck of src/libjio.c): a record that is missing or whose file is
\* locked never ends jfsck: once started, jfsck is never ended by the second
\* free() of the head buffer at its loop tail
C14_LibjioFsckGoesOn == fsck.pc # "o_abort"

C16_LockedSkipped ==
    [][ ( /\ fsck.pc = "f_loop" /\ fsck' # fsck
          /\ fsck.i <= fsck.maxtid /\ fsck.i \in Names
          /\ ino[dir[fsck.i]].lk \in Procs \ {FsckProc} ) =>
          /\ fsck'.pc = "f_tail"
          /\ fsck'.res.in_progress = fsck.res.in_progress + 1
          /\ fsck'.res.reapplied = fsck.res.reapplied
          /\ data' = data /\ dir' = dir /\ ino' = ino
          /\ task'[FsckTask] = task[FsckTask] ]_vars

\* C16 (the jfsck of src/libjio.c): the same of the step that opens a record
\* and tries the lock
C16_LibjioLockedSkipped ==
    [][ ( /\ fsck.pc = "o_loop" /\ fsck' # fsck
          /\ fsck.i <= fsck.maxtid /\ fsck.i \in Names
          /\ ino[dir[fsck.i]].lk \in Procs \ {FsckProc} ) =>
          /\ fsck'.pc = "o_tail"
          /\ fsck'.res.in_progress = fsck.res.in_progress + 1
          /\ fsck'.res.reapplied = fsck.res.reapplied
          /\ data' = data /\ dir' = dir /\ ino' = ino
          /\ task'[FsckTask] = task[FsckTask] ]_vars

\* C17: when jfsck has returned, every record it reapplied is gone from the
\* journal directory: with no record skipped as in progress and no replay
\* failed, no name up to maxtid is left that holds a record which parses and
\* has the right checksum
C17_ReappliedRemoved ==
    (fsck.pc = "f_idle" /\ fsck.runs >= 1 /\ fsck.res.reapplied >= 1
       /\ fsck.res.in_progress = 0 /\ fsck.res.apply_error = 0) =>
      \A i \in Names :
         (i >= 1 /\ i <= fsck.maxtid) =>
            LET m == ino[dir[i]].bytes IN
              \/ Len(m) = 0 \/ ~fill_trans(m).ok
              \/ checksum_map(m, Len(m) - 4) # Rd32(m, Len(m) - 4)

\* C18: a jtrans_commit that failed before the fsync of its record has
\* returned an error with nothing left behind: once every caller is back, the
\* record of a failed commit is not in the journal directory, its process
\* holds no lock on a record file nor on the data file, and the data file is
\* the initial file with the committed transactions applied
C18_CleanAbort ==
    (\A t \in Tasks : At(t, "idle")) =>
      \A t \in Tasks :
         (task[t].n >= 1 /\ task[t].ret < 0) =>
            /\ task[t].lid \notin Names
            /\ \A x \in DOMAIN ino : ino[x].lk # procOf[t]
            /\ dlock[procOf[t]] = {}
            /\ data = shadow

\* C19: a jtrans_commit whose write to the data file failed or was short
\* after the fsync of its record has returned an error with J_COMMITED clear,
\* its record still in the journal directory and the counter not lowered,
\* and once a later jfsck has returned, no allocation of it having failed,
\* the data file holds the transaction
C19_FailedApplyRedone ==
    /\ (At(1, "idle") /\ task[1].n = 1 /\ task[1].ret < 0) =>
          /\ ~HasCommited(task[1].flags)
          /\ task[1].id \in Names
          /\ ~lastgot.lowered
    /\ (crashed /\ fsck.pc = "f_idle" /\ fsck.runs >= 1 /\ fsck.res.load_error = 0) =>
          data = shadow

\* C20: jfsck_cleanup removes the lock file and every record, removes the
\* directory when nothing else is in it, and never removes an entry whose
\* name is neither "lock" nor, as a whole, a positive decimal integer
C20_CleanupExact ==
    /\ [][ \A d \in others :
             ( /\ d # LockName
               /\ ~ ( /\ \A k \in 1..Len(d) : d[k] \in DOMAIN DigitVal
                      /\ AtoiDigits(d, 1, 0) > 0 ) )
             => d \in others' ]_vars
    /\ []( (cleanup.pc = "idle" /\ cleanup.runs >= 1) =>
             /\ Names = {} /\ ~cleanup.lock
             /\ (others = {} => ~cleanup.jdir) )

\* C21: a jtrans_rollback on a file opened with J_NOROLLBACK, or of a
\* transaction that has not J_COMMITED set, is refused: the call returns an
\* error at once and the data file keeps its contents and its length
C21_RollbackRefused ==
    [][ \A t \in Tasks :
          ( /\ At(t, "idle") /\ task[t].via = "jtrans_commit"
            /\ task'[t].via = "rollback"
            /\ (norollback[procOf[t]] \/ ~HasCommited(task[t].flags)) ) =>
          /\ data' = data
          /\ task'[t].pc = "idle" /\ task'[t].ret < 0 ]_vars

\* C22: a jpread that overlaps the range of a jtrans_commit of another thread
\* or process has read, at every position of the overlap, what was there
\* before the apply (the byte the file had when the commit began, or past
\* the end the file then had, the end of the file or a zero of the
\* extension), or at every position of the overlap the new bytes
C22_NoMixedRead ==
    LET w == task[1]
        r == task[2]
    IN  ( /\ r.via = "jpread" /\ r.pc \in {"r_unlock", "idle"}
          /\ w.n = 1 /\ w.via = "jtrans_commit"
          /\ Overlap(w.offset, w.len, r.offset, r.len) ) =>
          LET ov == { q \in Positions : /\ q >= w.offset /\ q < w.offset + w.len
                                        /\ q >= r.offset /\ q < r.offset + r.len }
              rd(q) == IF q - r.offset < Len(r.buf) THEN r.buf[q - r.offset + 1] ELSE 0 - 1
              pre(q) == IF q < Len(base) THEN base[q + 1] ELSE 0 - 1
              post(q) == w.buf[q - w.offset + 1]
          IN  \/ \A q \in ov : rd(q) = pre(q) \/ (q >= Len(base) /\ rd(q) = 0)
              \/ \A q \in ov : rd(q) = post(q)

\* C23: at every point of a jtrans_commit, whoever called it (a caller,
\* jtrans_rollback for its reverse transaction, jfsck for a transaction read
\* from a record), the transaction has J_COMMITED in its flags if and only
\* if its apply write has been done
C23_CommitedIffApplied ==
    \A t \in AllTasks :
       /\ task[t].pc \in {"c_tid", "c_open", "c_flock", "c_dlock", "c_whead", "c_read",
                          "c_trunc", "c_wpdata", "c_wbuf", "c_fsync", "c_apply"}
            => ~HasCommited(task[t].flags)
       /\ task[t].pc \in {"c_free", "c_unlink"} => HasCommited(task[t].flags)

\* C24: at every point of a commit the record file the transaction created
\* under its id is in the journal directory if and only if the record has
\* been written whole and fsynced and the transaction has not yet been
\* applied, freed and unlinked
C24_RecordIffFsynced ==
    \A t \in Tasks :
       task[t].pc \in {"c_tid", "c_open", "c_flock", "c_dlock", "c_whead", "c_read",
                       "c_trunc", "c_wpdata", "c_wbuf", "c_fsync", "c_apply", "c_free",
                       "c_unlink", "c_close", "c_dunlock"} =>
          ( (task[t].lid \in Names /\ dir[task[t].lid] = task[t].myino)
              <=> task[t].pc \in {"c_apply", "c_free", "c_unlink"} )

\* two processes on one journal directory: the lock file holds any counter,
\* small, INT_MAX or one of the greatest 32-bit values, and any of the records
\* 1..MaxId is there
InitTid ==
    /\ data = << >>
    /\ counter \in (0..MaxId) \cup {INT_MAX, 0 - 1, 0 - 2}
    /\ \E S \in SUBSET (1..MaxId) :
         /\ dir = [ id \in S |-> id ]
         /\ ino = [ id \in S |-> [ bytes |-> << >>, lk |-> 0 ] ]
    /\ nextino = MaxId + 1
    /\ crashed = FALSE
    /\ shadow = data
    /\ procOf = [ t \in AllTasks |-> t ]
    /\ wrapper = FALSE
    /\ norollback = [ p \in Procs |-> FALSE ]
    /\ InitRest

NextTid ==
    \E t \in Tasks : g_call(t) \/ get_tid_call(t) \/ ft_call(t) \/ free_tid_call(t)

SpecTid == InitTid /\ [][NextTid]_vars

\* two processes that commit, the first up to MaxCommits times and the other
\* once, neither crash nor I/O error; a commit that can take its next step is
\* scheduled in the end
NextCommits ==
    \/ \E t \in Tasks : (t = 1 \/ task[t].n = 0) /\ Call(t)
    \/ \E t \in Tasks : Commit(t)

SpecCommits ==
    /\ InitOld
    /\ [][NextCommits]_vars
    /\ \A t \in Tasks : WF_vars(Commit(t))

\* one process writes through jwrite and jwritev; the write to the data file
\* may fail
NextWrite ==
    \E t \in {1} : jw_call(t) \/ Commit(t) \/ c_apply_fail(t) \/ jw_ret(t)

SpecWrite == InitOld /\ [][NextWrite]_vars

\* two processes open the same data file for the first time: there is no
\* lock file yet; a process that has opened goes on to get_tid
InitOpen ==
    /\ data = << >>
    /\ counter = 0
    /\ dir = << >>
    /\ ino = << >>
    /\ nextino = 1
    /\ crashed = FALSE
    /\ shadow = data
    /\ procOf = [ t \in AllTasks |-> t ]
    /\ wrapper = FALSE
    /\ norollback = [ p \in Procs |-> FALSE ]
    /\ InitRun
    /\ others = {}
    /\ jsize = 0 - 1

NextOpen ==
    \E t \in Tasks :
       \/ jo_call(t)
       \/ jopen(t)
       \/ tidop[t].fn = "jopen" /\ tidop[t].ret = 0 /\ g_call(t)
       \/ get_tid_call(t)

SpecOpen == InitOpen /\ [][NextOpen]_vars

\* C25: jfsck replays the records in ascending order of their ids: the loop
\* index only grows during a run, and when jfsck has returned having
\* replayed two whole records whose ranges overlap, the data file holds at
\* every position of the overlap the byte of the record with the higher id
C25_HigherIdWins ==
    /\ [][ (fsck.pc # "f_idle" /\ fsck'.pc # "f_idle" /\ fsck.pc # "f_wmax")
             => fsck'.i >= fsck.i ]_vars
    /\ []( (crashed /\ fsck.pc = "f_idle" /\ fsck.runs >= 1 /\ fsck.res.apply_error = 0) =>
             \A i, j \in Names :
                LET a == fill_trans(ino[dir[i]].bytes)
                    b == fill_trans(ino[dir[j]].bytes)
                IN  ( /\ i < j /\ j <= fsck.maxtid
                      /\ a.ok /\ b.ok /\ Len(a.ops) = 1 /\ Len(b.ops) = 1
                      /\ ChecksumOk(ino[dir[i]].bytes) /\ ChecksumOk(ino[dir[j]].bytes)
                      /\ Overlap(a.ops[1].offset, a.ops[1].len,
                                 b.ops[1].offset, b.ops[1].len) ) =>
                    \A q \in Positions :
                       ( /\ q >= a.ops[1].offset /\ q < a.ops[1].offset + a.ops[1].len
                         /\ q >= b.ops[1].offset /\ q < b.ops[1].offset + b.ops[1].len ) =>
                         data[q + 1] = b.ops[1].buf[q - b.ops[1].offset + 1] )

\* jfsck has returned having replayed records 1 and 2, which both write the
\* head of the file, and the file holds the bytes of record 2
C25_Witness ==
    /\ crashed /\ fsck.pc = "f_idle" /\ fsck.runs = 1 /\ fsck.res.reapplied = 2
    /\ {1, 2} \subseteq Names
    /\ fill_trans(ino[dir[1]].bytes).ops[1].offset = 0
    /\ fill_trans(ino[dir[2]].bytes).ops[1].offset = 0
    /\ data = Fill(MaxLen, 22)

C29_OtherIdKeepsCounter ==
    [][ \A t \in AllTasks :
          (At(t, "c_free") /\ task'[t].pc = "c_unlink" /\ task[t].id # counter) =>
             counter' = counter ]_vars

\* C27: a get_tid whose read and write are whole returns the counter it read
\* plus one as a 32-bit unsigned value, 1 in place of 0 when the counter held
\* the greatest 32-bit value; the id is never 0, it is the value left in the
\* lock file, and get_tid returns 0 only when its read or its write was short
C27_GetTidNext ==
    /\ [][ \A t \in Tasks :
             (tidop[t].pc = "g_read" /\ tidop'[t].pc = "g_write") =>
                tidop'[t].curid = counter ]_vars
    /\ [][ \A t \in Tasks :
             (tidop[t].pc = "g_write" /\ tidop'[t].pc = "g_exit" /\ tidop'[t].r = 4) =>
                LET c == tidop[t].curid
                    e == IF c = 0 - 1 THEN 1
                         ELSE IF c = INT_MAX THEN INT_MIN ELSE c + 1
                IN  /\ e # 0
                    /\ tidop'[t].rv = e
                    /\ counter' = e ]_vars
    /\ [][ \A t \in Tasks :
             (tidop[t].pc = "g_exit" /\ tidop'[t].pc = "idle") =>
                /\ tidop'[t].ret = tidop[t].rv
                /\ (tidop'[t].ret = 0) <=> (tidop[t].r # 4) ]_vars

\* get_tid has read the greatest 32-bit value and returned 1, which is in the
\* lock file
C27_Witness ==
    \E t \in Tasks :
       /\ tidop[t].pc = "idle" /\ tidop[t].fn = "get_tid"
       /\ tidop[t].read = 0 - 1 /\ tidop[t].ret = 1 /\ counter = 1

\* C28: get_tid and free_tid give the lock on the lock file back on every way
\* out, a short read or a short write of the counter included: a caller that
\* is in neither function leaves its process without the lock, and a get_tid
\* whose read or write was short returns 0
C28_LockReleased ==
    /\ []( \A t \in Tasks :
             tidop[t].pc \in {"idle", "g_lock", "ft_lock"} => ~jlock[procOf[t]] )
    /\ []( \A t \in Tasks :
             (tidop[t].pc = "idle" /\ tidop[t].fn = "get_tid" /\ tidop[t].r # 4) =>
                tidop[t].ret = 0 )
    /\ [][ \A t \in Tasks :
             (tidop[t].pc = "g_read" /\ tidop'[t].pc = "g_exit") => counter' = counter ]_vars

\* one caller is back from a get_tid whose read was short and another from a
\* free_tid whose write was short, and the lock file is unlocked
C28_Witness ==
    /\ \A p \in Procs : ~jlock[p]
    /\ \E t, u \in Tasks :
         /\ tidop[t].pc = "idle" /\ tidop[t].fn = "get_tid"
         /\ tidop[t].r # 4 /\ tidop[t].read = 0 /\ tidop[t].ret = 0
         /\ tidop[u].pc = "idle" /\ tidop[u].fn = "free_tid"
         /\ tidop[u].r # 4 /\ tidop[u].far

\* C30: a free_tid called with the id the counter holds (not 0) writes the
\* greatest smaller id whose record is in the journal directory, 0 when there
\* is none, in agreement with the one-step free_tid of the commit; the scan
\* has then made at most counter - 1 probes
C30_FreeMaxLowers ==
    [][ \A t \in Tasks :
          ( /\ tidop[t].pc = "ft_write" /\ tidop'[t].pc = "ft_exit" /\ tidop'[t].r = 4
            /\ tidop[t].tid = tidop[t].read /\ tidop[t].read # 0 ) =>
             LET below == { n \in Names : n # 0 /\ ULess(n, tidop[t].read) } IN
               /\ below = {} => counter' = 0
               /\ below # {} => /\ counter' \in below
                                /\ \A n \in below : ~ULess(counter', n)
               /\ counter' = free_tid(tidop[t].read, tidop[t].tid, Names)
               /\ ~tidop[t].far => tidop[t].probes <= tidop[t].read - 1
               /\ tidop[t].far => /\ tidop[t].probes <= MaxId
                                  /\ ULess(MaxId, Dec32(tidop[t].read)) ]_vars

\* free_tid(3) with the counter at 3 and the records 1 and 2 there has set the
\* counter to 2 after one probe
C30_Witness ==
    \E t \in Tasks :
       /\ tidop[t].pc = "idle" /\ tidop[t].fn = "free_tid"
       /\ tidop[t].tid = MaxId /\ tidop[t].read = MaxId
       /\ Names = 1..(MaxId - 1)
       /\ tidop[t].r = 4 /\ tidop[t].probes = 1 /\ counter = MaxId - 1

\* C31: of two processes that open the same data file with no lock file
\* there, only one writes the first counter: an opener writes only while the
\* lock file is still empty, its whole write leaves 1, and no step of a
\* jopen changes a counter that is already in the lock file
C31_InitOnce ==
    /\ [][ \A t \in Tasks :
             (tidop[t].pc = "jo_write" /\ tidop'[t].pc = "jo_unlock") =>
                /\ jsize = 0
                /\ tidop'[t].rv = 0 => (counter' = 1 /\ jsize' = 4) ]_vars
    /\ [][ \A t \in Tasks :
             (tidop[t].fn = "jopen" /\ tidop'[t] # tidop[t] /\ jsize = 4) =>
                (counter' = counter /\ jsize' = jsize) ]_vars

\* one process has initialised the counter and advanced it to 2 with get_tid;
\* the other, in its jopen, holds the lock and has found the file not empty
C31_Witness ==
    /\ tidop[1].pc = "idle" /\ tidop[1].fn = "get_tid" /\ tidop[1].ret = 2
    /\ tidop[2].pc = "jo_unlock" /\ tidop[2].fn = "jopen" /\ tidop[2].r = 4
    /\ ~tidop[2].seen
    /\ counter = 2

\* C32: a successful commit unlinks its record, then frees its id, then gives
\* up the range lock on the data file, then closes the record: when free_tid
\* is called the record is no longer in the journal directory, and when the
\* range lock is given up the record descriptor is still open
C32_ReclaimOrder ==
    [][ \A t \in Tasks :
          /\ (At(t, "c_free") /\ task'[t].pc # "c_free" /\ ~crashed') =>
                ~(task[t].lid \in Names /\ dir[task[t].lid] = task[t].myino)
          /\ (At(t, "c_dunlock") /\ task'[t].pc # "c_dunlock" /\ ~crashed'
                /\ HasCommited(task[t].flags)) =>
                task[t].fd # 0 ]_vars

\* C33: commits of several processes never wait on one another for ever:
\* while a commit is under way some commit can take a step, and with every
\* commit that can step scheduled in the end each jtrans_commit returns
C33_CommitsReturn ==
    /\ []( (\E t \in Tasks : ~At(t, "idle")) => ENABLED (\E u \in Tasks : Commit(u)) )
    /\ \A t \in Tasks : (~At(t, "idle")) ~> At(t, "idle")

\* a commit waits for a range of the data file that the other process holds
C33_Witness ==
    /\ At(2, "c_dlock") /\ ~At(1, "idle")
    /\ dlock[procOf[1]] \cap plockf_range(task[2].offset, task[2].len) # {}
    /\ ~ENABLED c_dlock(2)

\* C34: when jwrite or jwritev returns, the file pointer has moved on by the
\* number of bytes written, the sum of the lengths of the buffers, if the
\* commit succeeded, and has stayed where it was if the commit failed
C34_PointerAdvance ==
    [][ \A t \in Tasks :
          (At(t, "idle") /\ iov[t] # << >> /\ iov'[t] = << >>) =>
             fpos'[procOf[t]] =
                fpos[procOf[t]]
                  + (IF task[t].ret >= 0
                     THEN (IF Len(iov[t]) = 1 THEN iov[t][1] ELSE iov[t][1] + iov[t][2])
                     ELSE 0) ]_vars

\* C35: the counters of jfsck partition the ids it examined: at the head of
\* the loop total is the number of ids gone through, and when jfsck has
\* returned total is maxtid; at both points total is the sum of invalid,
\* in_progress, broken, corrupt, apply_error and reapplied
C35_CountersPartition ==
    LET r == fsck.res
        sum == r.invalid + r.in_progress + r.broken + r.corrupt + r.apply_error
                 + r.reapplied
    IN  /\ fsck.pc = "f_scan" => (r.total = 0 /\ sum = 0)
        /\ fsck.pc = "f_loop" => (r.total = fsck.i - 1 /\ sum = r.total)
        /\ (fsck.pc = "f_idle" /\ fsck.runs >= 1 /\ crashed) =>
              (r.total = fsck.maxtid /\ sum = r.total)

\* jfsck has returned from a journal whose record 1 is missing and whose
\* record 2 it replayed
C35_Witness ==
    /\ crashed /\ fsck.pc = "f_idle" /\ fsck.runs = 1
    /\ fsck.maxtid = 2 /\ fsck.res.total = 2
    /\ fsck.res.invalid = 1 /\ fsck.res.reapplied = 1

\* C36: a process whose jtrans_commit has returned, on success or on any
\* failure, holds no range lock on the data file and no lock on a record
\* file, and its record descriptor is closed
C36_ReturnedHoldsNothing ==
    \A t \in Tasks :
       (At(t, "idle") /\ ~crashed) =>
          /\ dlock[procOf[t]] = {}
          /\ \A x \in DOMAIN ino : ino[x].lk # procOf[t]
          /\ task[t].fd = 0

\* C37: no step of a commit unlinks, empties or rewrites the record of
\* another transaction that is still under way: the record a commit has
\* created stays in the journal directory under its id, and once fsynced
\* keeps its bytes, until that same commit unlinks it
C37_OwnRecordOnly ==
    [][ \A t \in Tasks :
          ( /\ task[t].pc \in {"c_flock", "c_dlock", "c_whead", "c_read", "c_trunc",
                               "c_wpdata", "c_wbuf", "c_fsync", "c_apply", "c_free",
                               "c_unlink"}
            /\ task[t].lid \in Names /\ dir[task[t].lid] = task[t].myino
            /\ task'[t] = task[t] /\ ~crashed' ) =>
             /\ task[t].lid \in DOMAIN dir'
             /\ dir'[task[t].lid] = task[t].myino
             /\ ino'[task[t].myino].bytes = ino[task[t].myino].bytes ]_vars

\* C38: jtrans_commit returns the length of the transaction only when this
\* very call has written the new data to the data file and gone on to remove
\* its record, and returns -1 in every other case, whatever flags the
\* transaction carried when the call was made
C38_LenOnlyIfApplied ==
    [][ \A t \in Tasks :
          (At(t, "c_dunlock") /\ task'[t].pc = "idle") =>
             IF task[t].lid \in Names
             THEN task'[t].ret = 0 - 1
             ELSE task'[t].ret = task[t].len ]_vars

====
